---- MODULE Spec2Model ----
(***************************************************************************)
(* A model of two backends of the OpenSlide whole-slide-image reader:      *)
(*   - the JPEG-mosaic backend (src/src/openslide-ops-jpeg.c): the         *)
(*     restart-marker index, its lazy fill by readers, the background      *)
(*     sweep, the slide mutex and the open/destroy life cycle;             *)
(*   - the DICOM backend (src/src/openslide-vendor-dicom.c): the level     *)
(*     geometry and the per-tile frame lookup.                             *)
(* Files are sequences of byte values (0..255); file offsets are 0-based   *)
(* as in the C code, so the byte at offset p of f is f[p + 1].             *)
(***************************************************************************)
EXTENDS Integers, Sequences, FiniteSets, TLC

(***************************************************************************)
(* Bounds of the model.                                                    *)
(***************************************************************************)
\* number of foreground threads that call read_region
NumReaders == 2
\* size of the scan buffer handed to find_next_ff_marker.  The code passes
\* 4096; the model's files are a few bytes long, so the buffer is scaled down
\* to make refills (and an 0xFF on the last byte of a buffer) happen.
BufSize == 4

(***************************************************************************)
(* Bytes and files.                                                        *)
(***************************************************************************)
JPEG_EOI == 217

Min(a, b) == IF a < b THEN a ELSE b

ByteAt(f, p) == f[p + 1]

\* buf[1] < 0xD0 || buf[1] > 0xD7 negated; b >= 0xD0 && b < 0xD8
is_restart_marker(b) == b >= 208 /\ b <= 215

\* memchr(*buf, 0xFF, *bytes_in_buf): offset of the first 0xFF in file bytes
\* [lo, hi), or -1
memchr_ff(f, lo, hi) ==
  LET hits == {p \in lo..(hi - 1) : ByteAt(f, p) = 255}
  IN  IF hits = {} THEN -1
      ELSE CHOOSE p \in hits : \A q \in hits : p <= q

(***************************************************************************)
(* find_next_ff_marker.  The FILE position is file_pos (the offset after   *)
(* the last fread); *buf points at file offset file_pos - bytes_in_buf.    *)
(* The result carries the marker byte, *after_marker_pos and the buffer    *)
(* state the caller keeps between calls.                                   *)
(***************************************************************************)
\* find_next_ff_marker forgetting, at a refill, an 0xFF that ended the buffer
RECURSIVE find_next_ff_marker_forgets(_, _, _, _, _, _)
find_next_ff_marker_forgets(f, buf_size, file_size, file_pos, bytes_in_buf, last_was_ff) ==
  LET bytes_to_read == Min(buf_size, file_size - file_pos)
      refill        == bytes_in_buf = 0
      fp            == IF refill THEN file_pos + bytes_to_read ELSE file_pos
      bib           == IF refill THEN bytes_to_read ELSE bytes_in_buf
      ff            == memchr_ff(f, fp - bib, fp)
  IN
  IF refill /\ bytes_to_read <= 0
  THEN [marker |-> 0, after_marker_pos |-> -1, file_pos |-> file_pos, bytes_in_buf |-> 0]
  ELSE IF ff = -1 \/ fp - (ff + 1) = 0
  THEN find_next_ff_marker_forgets(f, buf_size, file_size, fp, 0, FALSE)
  ELSE [marker |-> ByteAt(f, ff + 1), after_marker_pos |-> ff + 2,
        file_pos |-> fp, bytes_in_buf |-> fp - (ff + 2)]

RECURSIVE find_next_ff_marker(_, _, _, _, _, _)
find_next_ff_marker(f, buf_size, file_size, file_pos, bytes_in_buf, last_was_ff) ==
  LET bytes_to_read == Min(buf_size, file_size - file_pos)
      refill        == bytes_in_buf = 0
      fp            == IF refill THEN file_pos + bytes_to_read ELSE file_pos
      bib           == IF refill THEN bytes_to_read ELSE bytes_in_buf
  IN
  IF refill /\ bytes_to_read <= 0
  THEN \* fread returned 0
       [marker |-> 0, after_marker_pos |-> -1, file_pos |-> file_pos, bytes_in_buf |-> 0]
  ELSE IF last_was_ff
  THEN [marker |-> ByteAt(f, fp - bib), after_marker_pos |-> fp - (bib - 1),
        file_pos |-> fp, bytes_in_buf |-> bib - 1]
  ELSE LET ff == memchr_ff(f, fp - bib, fp) IN
       IF ff = -1
       THEN find_next_ff_marker(f, buf_size, file_size, fp, 0, FALSE)
       ELSE LET left == fp - (ff + 1) IN   \* bytes_in_buf after consuming the ff
            IF left = 0
            THEN find_next_ff_marker(f, buf_size, file_size, fp, 0, TRUE)
            ELSE [marker |-> ByteAt(f, ff + 1), after_marker_pos |-> fp - (left - 1),
                  file_pos |-> fp, bytes_in_buf |-> left - 1]

(***************************************************************************)
(* compute_mcu_start.  oj is a one_jpeg record, starts its mcu_starts      *)
(* array (a function on 0..mcu_starts_count-1), and the result is the new  *)
(* array with a flag telling that a g_assert ended the process.            *)
(***************************************************************************)
NoHints == <<>>

\* hint_is_marker without the two-byte test: every hint is accepted
hint_unchecked(f, file_size, offset) == TRUE

\* the hint test of lines 483-487: seek to offset - 2, read two bytes
hint_is_marker(f, file_size, offset) ==
  /\ offset - 2 >= 0
  /\ offset <= file_size
  /\ ByteAt(f, offset - 2) = 255
  /\ is_restart_marker(ByteAt(f, offset - 1))

\* the walk replaced by the start of the scan: every scan begins at entry 0
first_good_is_scan_start(starts, i) == 0

\* lines 497-500: walk backwards to the first entry that is not -1
RECURSIVE first_good_before(_, _)
first_good_before(starts, i) ==
  IF starts[i] # -1 THEN i ELSE first_good_before(starts, i - 1)

\* lines 509-526: the forward scan.  scan_forward is the loop test and the
\* call of find_next_ff_marker, scan_marker the rest of the loop body with
\* the call's result r.
RECURSIVE scan_forward(_, _, _, _, _, _)
scan_marker(oj, starts, first_good, target, r) ==
  IF ~(r.after_marker_pos > 0)
  THEN [mcu_starts |-> starts, aborted |-> TRUE]
  ELSE IF r.marker = JPEG_EOI
  THEN [mcu_starts |-> starts, aborted |-> FALSE]
  ELSE IF is_restart_marker(r.marker)
  THEN scan_forward(oj, [starts EXCEPT ![first_good + 1] = r.after_marker_pos],
                    first_good + 1, target, r.file_pos, r.bytes_in_buf)
  ELSE scan_forward(oj, starts, first_good, target, r.file_pos, r.bytes_in_buf)

scan_forward(oj, starts, first_good, target, file_pos, bytes_in_buf) ==
  IF ~(first_good < target)
  THEN [mcu_starts |-> starts, aborted |-> FALSE]
  ELSE scan_marker(oj, starts, first_good, target,
                   find_next_ff_marker(oj.f, BufSize, oj.file_size,
                                       file_pos, bytes_in_buf, FALSE))

\* compute_mcu_start without the hint test: every unknown entry is scanned for
compute_mcu_start_scan_only(oj, starts, target) ==
  IF starts[target] # -1
  THEN [mcu_starts |-> starts, aborted |-> FALSE]
  ELSE scan_forward(oj, starts, first_good_before(starts, target - 1), target,
                    starts[first_good_before(starts, target - 1)], 0)

\* compute_mcu_start with the hint test made before the look at the entry: a
\* hint that passes the test is written over an entry already known
compute_mcu_start_hint_first(oj, starts, target) ==
  IF target = 0
  THEN [mcu_starts |-> starts, aborted |-> starts[target] = -1]
  ELSE IF oj.unreliable_mcu_starts # NoHints
          /\ oj.unreliable_mcu_starts[target] # -1
          /\ hint_is_marker(oj.f, oj.file_size, oj.unreliable_mcu_starts[target])
  THEN [mcu_starts |-> [starts EXCEPT ![target] = oj.unreliable_mcu_starts[target]],
        aborted |-> FALSE]
  ELSE compute_mcu_start_scan_only(oj, starts, target)

compute_mcu_start(oj, starts, target) ==
  IF starts[target] # -1
  THEN [mcu_starts |-> starts, aborted |-> FALSE]
  ELSE IF target = 0
  THEN [mcu_starts |-> starts, aborted |-> TRUE]
  ELSE LET offset == IF oj.unreliable_mcu_starts = NoHints THEN -1
                     ELSE oj.unreliable_mcu_starts[target]
       IN  IF offset # -1 /\ hint_is_marker(oj.f, oj.file_size, offset)
           THEN [mcu_starts |-> [starts EXCEPT ![target] = offset],
                 aborted |-> FALSE]
           ELSE LET first_good == first_good_before(starts, target - 1)
                IN  scan_forward(oj, starts, first_good, target,
                                 starts[first_good], 0)

(***************************************************************************)
(* read_from_one_jpeg: the restart segment of the tile at (x, y) of one    *)
(* JPEG and the three offsets handed to jpeg_random_access_src.            *)
(***************************************************************************)
\* lines 568-571, with c the index after the calls of compute_mcu_start
random_access_src_args(oj, mcu_start, c) ==
  [mcu_starts |-> c.mcu_starts,
   aborted    |-> c.aborted,
   use        |-> [header_stop_position |-> c.mcu_starts[0],
                   start_position       |-> c.mcu_starts[mcu_start],
                   stop_position        |->
                     IF oj.mcu_starts_count = mcu_start + 1 THEN oj.file_size
                     ELSE c.mcu_starts[mcu_start + 1]]]

\* lines 550-559, with c1 the result of the first call
compute_stop_position(oj, mcu_start, c1) ==
  IF oj.mcu_starts_count = mcu_start + 1 \/ c1.aborted
  THEN random_access_src_args(oj, mcu_start, c1)
  ELSE random_access_src_args(oj, mcu_start,
         compute_mcu_start(oj, c1.mcu_starts, mcu_start + 1))

\* lines 537-549
segment_of_tile(oj, x, y) ==
  LET tile_y          == y \div oj.tile_height
      tile_x          == x \div oj.tile_width
      stride_in_tiles == oj.width \div oj.tile_width
  IN  tile_y * stride_in_tiles + tile_x

\* A segment number outside the index makes line 548 read and write past
\* the mcu_starts array, which is undefined: the result then names the
\* segment only, and the action that applies it decides among the outcomes.
read_from_one_jpeg(oj, starts, x, y) ==
  IF segment_of_tile(oj, x, y) \in 0..(oj.mcu_starts_count - 1)
  THEN compute_stop_position(oj, segment_of_tile(oj, x, y),
         compute_mcu_start(oj, starts, segment_of_tile(oj, x, y)))
  ELSE [mcu_starts |-> starts, aborted |-> FALSE,
        use |-> [out_of_index |-> TRUE, mcu_start |-> segment_of_tile(oj, x, y)]]

(***************************************************************************)
(* Layer assembly.                                                         *)
(***************************************************************************)
is_zxy_successor(pz, px, py, z, x, y) ==
  IF z = pz + 1 THEN x = 0 /\ y = 0
  ELSE IF z # pz THEN FALSE
  ELSE IF y = py + 1 THEN x = 0
  ELSE IF y # py THEN FALSE
  ELSE x = px + 1

\* init_optimization and init_one_jpeg: what is kept of a fragment's file.
\* A file is a record of its bytes and of the values libjpeg reads from its
\* header (the decoder itself is outside the repository).
init_one_jpeg(fragment) ==
  LET h == fragment.f IN
  [f                     |-> h.bytes,
   file_size             |-> Len(h.bytes),
   mcu_starts_count      |-> (h.MCUs_per_row * h.MCU_rows_in_scan) \div h.restart_interval,
   unreliable_mcu_starts |-> fragment.mcu_starts,
   tile_width            |-> h.output_width \div (h.MCUs_per_row \div h.restart_interval),
   tile_height           |-> h.output_height \div h.MCU_rows_in_scan,
   width                 |-> h.output_width,
   height                |-> h.output_height]

\* lines 390-396: every entry -1 but the first, which is the scan start
init_optimization(fragment) ==
  LET h     == fragment.f
      count == (h.MCUs_per_row * h.MCU_rows_in_scan) \div h.restart_interval
  IN  [i \in 0..(count - 1) |-> IF i = 0 THEN h.header_stop ELSE -1]

\* an insertion that keeps the value a key has
hash_table_insert_keep(map, key, value) ==
  [k \in (DOMAIN map) \cup {key} |-> IF k \in DOMAIN map THEN map[k] ELSE value]

\* g_hash_table_insert: a new value for an existing key replaces the old one
hash_table_insert(map, key, value) ==
  [k \in (DOMAIN map) \cup {key} |-> IF k = key THEN value ELSE map[k]]

RECURSIVE generate_scale_denoms(_, _, _)
generate_scale_denoms(l, scale_denom, map) ==
  IF ~(scale_denom <= 8) THEN map
  ELSE generate_scale_denoms(l, scale_denom * 2,
         hash_table_insert(map, l.pixel_w \div scale_denom,
                           [l EXCEPT !.scale_denom = scale_denom]))

\* jpegs is the list of the z-group's one_jpeg indices; the result is the map
\* and a flag telling that g_assert(jj) failed in the copy loop
generate_layers_into_map(jpegs, jpegs_across, jpegs_down, pixel_w, pixel_h, image00_w, image00_h, layer0_w, map) ==
  LET num_jpegs == jpegs_across * jpegs_down IN
  IF num_jpegs > Len(jpegs)
  THEN [map |-> map, aborted |-> TRUE]
  ELSE [map |-> generate_scale_denoms(
                  [layer_jpegs  |-> SubSeq(jpegs, 1, num_jpegs),
                   pixel_w      |-> pixel_w,
                   pixel_h      |-> pixel_h,
                   jpegs_across |-> jpegs_across,
                   jpegs_down   |-> jpegs_down,
                   image00_w    |-> image00_w,
                   image00_h    |-> image00_h,
                   scale_denom  |-> 1,
                   layer0_w     |-> layer0_w],
                  1, map),
        aborted |-> FALSE]

\* the loop of lines 303-367 from fragment i on; s holds the locals
RECURSIVE width_to_layer_loop(_, _, _, _)
width_to_layer_loop(frs, jpegs, i, s) ==
  IF i > Len(frs) THEN [map |-> s.map, aborted |-> FALSE]
  ELSE
  LET fr == frs[i]
      oj == jpegs[i - 1]
  IN
  IF ~is_zxy_successor(s.prev_z, s.prev_x, s.prev_y, fr.z, fr.x, fr.y)
  THEN [map |-> s.map, aborted |-> TRUE]
  ELSE
  LET img00_w == IF fr.x = 0 /\ fr.y = 0 THEN oj.width ELSE s.img00_w
      img00_h == IF fr.x = 0 /\ fr.y = 0 THEN oj.height ELSE s.img00_h
      l_pw    == IF fr.y = 0 THEN s.l_pw + oj.width ELSE s.l_pw
      l_ph    == IF fr.x = 0 THEN s.l_ph + oj.height ELSE s.l_ph
      tmp     == Append(s.layer_jpegs_tmp, i - 1)
      flush   == i = Len(frs) \/ frs[i + 1].z # fr.z
      layer0_w == IF flush /\ fr.z = 0 THEN l_pw ELSE s.layer0_w
      g       == generate_layers_into_map(tmp, fr.x + 1, fr.y + 1, l_pw, l_ph,
                                          img00_w, img00_h, layer0_w, s.map)
  IN
  IF flush /\ g.aborted THEN [map |-> s.map, aborted |-> TRUE]
  ELSE width_to_layer_loop(frs, jpegs, i + 1,
         [prev_z |-> fr.z, prev_x |-> fr.x, prev_y |-> fr.y,
          layer_jpegs_tmp |-> IF flush THEN <<>> ELSE tmp,
          l_pw     |-> IF flush THEN 0 ELSE l_pw,
          l_ph     |-> IF flush THEN 0 ELSE l_ph,
          img00_w  |-> IF flush THEN 0 ELSE img00_w,
          img00_h  |-> IF flush THEN 0 ELSE img00_h,
          layer0_w |-> layer0_w,
          map      |-> IF flush THEN g.map ELSE s.map])

create_width_to_layer_map(frs, jpegs) ==
  width_to_layer_loop(frs, jpegs, 1,
    [prev_z |-> -1, prev_x |-> -1, prev_y |-> -1,
     layer_jpegs_tmp |-> <<>>, l_pw |-> 0, l_ph |-> 0,
     img00_w |-> 0, img00_h |-> 0, layer0_w |-> 0,
     map |-> <<>>])

\* the comparator of an ascending sort
width_compare_ascending(w1, w2) ==
  (IF w1 > w2 THEN 1 ELSE 0) - (IF w1 < w2 THEN 1 ELSE 0)

\* width_compare: > 0 when w1 < w2, so g_list_sort puts the widest key first
width_compare(w1, w2) ==
  (IF w1 < w2 THEN 1 ELSE 0) - (IF w1 > w2 THEN 1 ELSE 0)

\* lines 961-997: the layers in the order of the sorted keys
RECURSIVE sorted_layers(_, _)
sorted_layers(map, keys) ==
  IF keys = {} THEN <<>>
  ELSE LET first == CHOOSE k \in keys :
                      \A o \in keys : width_compare(k, o) <= 0
       IN  <<map[first]>> \o sorted_layers(map, keys \ {first})

(***************************************************************************)
(* The tile read path: tilereader_read and read_region.                    *)
(* all_starts is the mcu_starts array of every one_jpeg; a result carries  *)
(* the new arrays, the abort flag and, per tile read, the source JPEG and  *)
(* the offsets handed to jpeg_random_access_src.                           *)
(***************************************************************************)
\* what a tile read leaves: r is the result of read_from_one_jpeg on JPEG j
tile_result(all_starts, j, r) ==
  [mcu_starts |-> [all_starts EXCEPT ![j] = r.mcu_starts],
   aborted    |-> r.aborted,
   uses       |-> <<[jpeg |-> j, offsets |-> r.use]>>]

\* lines 639-650: the file and the offsets within it, and the assertion
tilereader_select(l, src_x0, src_y0) ==
  LET src_y       == src_y0 * l.scale_denom
      file_y      == src_y \div l.image00_h
      src_x       == src_x0 * l.scale_denom
      file_x      == src_x \div l.image00_w
  IN  [file_x |-> file_x, file_y |-> file_y,
       start_in_src_segment_x |-> src_x - file_x * l.image00_w,
       start_in_src_segment_y |-> src_y - file_y * l.image00_h,
       file_number |-> file_y * l.jpegs_across + file_x,
       asserted |-> file_y * l.jpegs_across + file_x < l.jpegs_across * l.jpegs_down]

\* lines 650-655, s being the choice of lines 639-649
tilereader_read_selected(l, jpegs, all_starts, s) ==
  IF ~s.asserted
  THEN [mcu_starts |-> all_starts, aborted |-> TRUE, uses |-> <<>>]
  ELSE tile_result(all_starts, l.layer_jpegs[s.file_number + 1],
         read_from_one_jpeg(jpegs[l.layer_jpegs[s.file_number + 1]],
                            all_starts[l.layer_jpegs[s.file_number + 1]],
                            s.start_in_src_segment_x, s.start_in_src_segment_y))

tilereader_read(l, jpegs, all_starts, src_x0, src_y0) ==
  tilereader_read_selected(l, jpegs, all_starts, tilereader_select(l, src_x0, src_y0))

\* _openslide_read_tiles (openslide-tilehelper, not in src/): the tiles that
\* meet [start_x, end_x] x [start_y, end_y], row by row, each handed to the
\* callback by its origin.  Every tile is taken to miss the cache: a hit
\* skips the callback, which is the read of a region without that tile.
RECURSIVE _openslide_read_tiles(_, _, _, _, _)
tiles_after(l, jpegs, tiles, tw_th, acc, r) ==
  _openslide_read_tiles(l, jpegs, tiles, tw_th,
    [mcu_starts |-> r.mcu_starts, aborted |-> r.aborted,
     uses |-> acc.uses \o r.uses])

_openslide_read_tiles(l, jpegs, tiles, tw_th, acc) ==
  IF tiles = <<>> \/ acc.aborted THEN acc
  ELSE tiles_after(l, jpegs, Tail(tiles), tw_th, acc,
         tilereader_read(l, jpegs, acc.mcu_starts,
                         Head(tiles)[1] * tw_th[1], Head(tiles)[2] * tw_th[2]))

RECURSIVE tile_list(_, _, _, _, _)
tile_list(col0, col1, row, row1, col) ==
  IF row > row1 THEN <<>>
  ELSE IF col > col1 THEN tile_list(col0, col1, row + 1, row1, col0)
  ELSE <<<<col, row>>>> \o tile_list(col0, col1, row, row1, col + 1)

\* read_region between g_mutex_lock and g_mutex_unlock.  rel_downsample is
\* layer0_w / pixel_w, so x / rel_downsample / scale_denom truncated to an
\* int64 is (x * pixel_w) div (layer0_w * scale_denom) for x >= 0.
read_region(ls, jpegs, all_starts, x, y, layer, w, h) ==
  LET l           == ls[layer + 1]
      scale_denom == l.scale_denom
      tw          == jpegs[l.layer_jpegs[1]].tile_width \div scale_denom
      th          == jpegs[l.layer_jpegs[1]].tile_height \div scale_denom
      ds_x        == (x * l.pixel_w) \div (l.layer0_w * scale_denom)
      ds_y        == (y * l.pixel_w) \div (l.layer0_w * scale_denom)
      pw          == l.pixel_w \div scale_denom
      ph          == l.pixel_h \div scale_denom
      end_x       == IF ds_x + w >= pw THEN pw - 1 ELSE ds_x + w
      end_y       == IF ds_y + h >= ph THEN ph - 1 ELSE ds_y + h
  IN  _openslide_read_tiles(l, jpegs,
        tile_list(ds_x \div tw, end_x \div tw, ds_y \div th, end_y \div th,
                  ds_x \div tw),
        <<tw, th>>,
        [mcu_starts |-> all_starts, aborted |-> FALSE, uses |-> <<>>])

\* get_dimensions: the bounds test is layer >= layer_count alone, so a
\* negative index reads data->layers[layer] before the array: the values
\* read there are whatever the memory holds.
GarbageValues == {0, 7}

get_dimensions(ls, layer) ==
  IF layer >= Len(ls)
  THEN {[w |-> 0, h |-> 0, read_layer |-> FALSE, in_array |-> TRUE]}
  ELSE IF layer >= 0
  THEN {[w |-> ls[layer + 1].pixel_w \div ls[layer + 1].scale_denom,
         h |-> ls[layer + 1].pixel_h \div ls[layer + 1].scale_denom,
         read_layer |-> TRUE, in_array |-> TRUE]}
  ELSE {[w |-> gw, h |-> gh, read_layer |-> TRUE, in_array |-> FALSE] :
          gw \in GarbageValues, gh \in GarbageValues}

(***************************************************************************)
(* The inputs: files, hints and fragment lists.                            *)
(* Every file has a two-byte header, four restart intervals (2 x 2 tiles   *)
(* of 8 x 8 pixels) and scan bytes written out in full.                    *)
(***************************************************************************)
JpegFile(bytes) ==
  [bytes |-> bytes, header_stop |-> 2,
   MCUs_per_row |-> 2, MCU_rows_in_scan |-> 2, restart_interval |-> 1,
   output_width |-> 16, output_height |-> 16]

\* three restart markers and EOI: segments start at 2, 5, 8, 11
FileFull  == JpegFile(<<63, 0, 1, 255, 208, 2, 255, 209, 3, 255, 210, 4, 255, 217>>)
\* a stuffed FF 00, and a fill byte before the second marker (FF FF D1):
\* segments start at 2, 7, 11, 14
FileFill  == JpegFile(<<63, 0, 1, 255, 0, 255, 208, 2, 255, 255, 209, 3,
                        255, 210, 4, 255, 217>>)
\* cut short after the second marker, no EOI
FileTrunc == JpegFile(<<63, 0, 1, 255, 208, 2, 255, 209, 3>>)
\* one restart marker, then EOI
FileShort == JpegFile(<<63, 0, 1, 255, 208, 2, 255, 217>>)

Hints(h1, h2, h3) == [i \in 0..3 |-> CASE i = 0 -> -1 [] i = 1 -> h1
                                       [] i = 2 -> h2 [] i = 3 -> h3]

\* Hints are -1 (none) or offsets >= 2: the failed seek of a smaller offset
\* is not modelled.
JpegMenu ==
  { [f |-> FileFull,  mcu_starts |-> NoHints],
    [f |-> FileFull,  mcu_starts |-> Hints(5, 8, 11)],    \* all right
    [f |-> FileFull,  mcu_starts |-> Hints(11, 5, -1)],   \* after other markers
    [f |-> FileFull,  mcu_starts |-> Hints(-1, -1, 5)],
    [f |-> FileFull,  mcu_starts |-> Hints(4, 20, -1)],   \* no marker there
    [f |-> FileFill,  mcu_starts |-> NoHints],
    [f |-> FileFill,  mcu_starts |-> Hints(-1, 11, -1)],
    [f |-> FileTrunc, mcu_starts |-> NoHints],
    [f |-> FileShort, mcu_starts |-> NoHints] }

Fragment(m, z, x, y) == [f |-> m.f, mcu_starts |-> m.mcu_starts,
                         z |-> z, x |-> x, y |-> y]

\* the second JPEG of a slide is drawn from a shorter menu, which keeps the
\* product of the two small
SecondMenu ==
  { [f |-> FileFull,  mcu_starts |-> NoHints],
    [f |-> FileShort, mcu_starts |-> NoHints] }

\* one z-group of two JPEGs side by side
Slides == { <<Fragment(a, 0, 0, 0), Fragment(b, 0, 1, 0)>> :
              a \in JpegMenu, b \in SecondMenu }

RegionXs == {0, 8, 16, 24}
RegionYs == {0, 8}

(***************************************************************************)
(* The state of a JPEG slide.                                              *)
(***************************************************************************)
VARIABLES
  fragments,          \* the fragment list handed to _openslide_add_jpeg_ops
  all_jpegs,          \* data->all_jpegs, indexed from 0
  mcu_starts,         \* mcu_starts[j][i]: all_jpegs[j].mcu_starts[i]
  layers,             \* data->layers; osr->layer_count is its length
  alive,              \* what of the slide is allocated and not yet freed
  ops_set,            \* osr->ops has been assigned
  mutex,              \* the holder of data->restart_marker_mutex
  should_terminate,   \* data->restart_marker_thread_should_terminate
  wpc,                \* the background worker's position
  current_jpeg,       \* the worker's locals
  current_mcu_start,
  rpc,                \* rpc[r]: reader r's position in read_region
  opc,                \* the next step of _openslide_add_jpeg_ops
  dpc,                \* the next step of destroy
  aborted,            \* a g_assert has ended the process
  wcalls,             \* how many times the worker has called compute_mcu_start
  pinned,             \* one earlier read_region call: its arguments and uses
  dims,               \* the last get_dimensions call: its argument and result
  dicom_level,        \* a DICOM Level made by level_new
  dicom_tile,         \* the last DICOM read_tile call: its arguments and outcome
  dicom_dir,          \* the directory dicom_open scans and the filename it is given
  dicom_slide,        \* what dicom_open left in osr, or its failure
  dicom_paint,        \* the last DICOM paint_region call: its arguments and outcome
  dicom_lock,         \* dicom_lock[name]: the holder of that DicomFile's lock
  dicom_pc,           \* dicom_pc[t]: thread t's position in a DICOM read
  dicom_call,         \* one DICOM read_tile call, step by step
  dicom_cache,        \* the tiles of the DICOM slide in the tile cache
  index_call,         \* one index and the compute_mcu_start calls made on it
  scan_run,           \* one byte stream and the find_next_ff_marker calls on it
  tile_stream,        \* the last buffer jpeg_random_access_src has built
  tile_pick           \* the last tilereader_read call: its arguments and choice

jpeg_vars == <<fragments, all_jpegs, mcu_starts, layers, alive, ops_set, mutex,
               should_terminate, wpc, current_jpeg, current_mcu_start, rpc,
               opc, dpc, aborted, wcalls, pinned>>

dicom_open_vars == <<dicom_dir, dicom_slide, dicom_paint, dicom_lock, dicom_pc,
                     dicom_call, dicom_cache>>

index_vars == <<index_call, scan_run, tile_stream, tile_pick>>

Holder(kind, id) == [kind |-> kind, id |-> id]
Free      == Holder("none", 0)
Worker    == Holder("worker", 0)
Destroyer == Holder("destroy", 0)
Reader(r) == Holder("reader", r)
Readers   == 1..NumReaders

None == [none |-> TRUE]

\* _openslide_add_jpeg_ops with the thread created before the cache and the
\* mutex are
OpenOrderThreadEarly == <<"all_jpegs", "layers", "thread", "cache", "mutex", "ops">>

\* the order of _openslide_add_jpeg_ops, lines 937-1019
OpenOrder == <<"all_jpegs", "layers", "cache", "mutex", "thread", "ops">>

\* the order of destroy, lines 707-743
DestroyOrder == <<"lock", "set", "unlock", "join", "jpegs", "layer_jpegs",
                  "all_jpegs", "layers", "cache", "mutex", "data">>

StepIndex(order, name) == CHOOSE i \in 1..Len(order) : order[i] = name

jpeg_count == Len(fragments)

InitJpeg(slides) ==
  /\ fragments \in slides
  /\ all_jpegs = <<>>
  /\ mcu_starts = <<>>
  /\ layers = <<>>
  /\ alive = {}
  /\ ops_set = FALSE
  /\ mutex = Free
  /\ should_terminate = FALSE
  /\ wpc = "unborn"
  /\ current_jpeg = 0
  /\ current_mcu_start = 0
  /\ rpc = [r \in Readers |-> "idle"]
  /\ opc = 1
  /\ dpc = 1
  /\ aborted = FALSE
  /\ wcalls = 0
  /\ pinned = None

(***************************************************************************)
(* _openslide_add_jpeg_ops, one step at a time.                            *)
(***************************************************************************)
OpenStep ==
  /\ ~aborted
  /\ opc <= Len(OpenOrder)
  /\ \E m \in {IF OpenOrder[opc] = "layers"
               THEN create_width_to_layer_map(fragments, all_jpegs)
               ELSE [map |-> <<>>, aborted |-> FALSE]} :
     LET step == OpenOrder[opc]
         jpegs == [i \in 0..(jpeg_count - 1) |-> init_one_jpeg(fragments[i + 1])]
     IN  /\ opc' = opc + 1
         /\ all_jpegs' = IF step = "all_jpegs" THEN jpegs ELSE all_jpegs
         /\ mcu_starts' = IF step = "all_jpegs"
                          THEN [i \in 0..(jpeg_count - 1) |->
                                  init_optimization(fragments[i + 1])]
                          ELSE mcu_starts
         /\ layers' = IF step = "layers" /\ ~m.aborted
                      THEN sorted_layers(m.map, DOMAIN m.map) ELSE layers
         /\ aborted' = (step = "layers" /\ m.aborted)
         /\ alive' = alive \cup
              (CASE step = "all_jpegs" -> {"data", "all_jpegs", "files", "mcu_starts"}
                 [] step = "layers"    -> {"layers", "layer_jpegs"}
                 [] step = "cache"     -> {"cache"}
                 [] step = "mutex"     -> {"mutex"}
                 [] OTHER              -> {})
         /\ wpc' = IF step = "thread" THEN "head" ELSE wpc
         /\ ops_set' = (ops_set \/ step = "ops")
  /\ UNCHANGED <<fragments, mutex, should_terminate, current_jpeg,
                 current_mcu_start, rpc, dpc, wcalls, pinned, dims,
                 dicom_level, dicom_tile, dicom_open_vars, index_vars>>

(***************************************************************************)
(* restart_marker_thread_func.                                             *)
(***************************************************************************)
\* the loop test fails: the thread function returns
WorkerReturn ==
  /\ ~aborted
  /\ wpc = "head"
  /\ ~(current_jpeg < jpeg_count)
  /\ wpc' = "done"
  /\ UNCHANGED <<fragments, all_jpegs, mcu_starts, layers, alive, ops_set, mutex,
                 should_terminate, current_jpeg, current_mcu_start, rpc, opc,
                 dpc, aborted, wcalls, pinned, dims,
                 dicom_level, dicom_tile, dicom_open_vars, index_vars>>

\* g_mutex_lock at the loop head returns once the mutex is free
WorkerLock ==
  /\ ~aborted
  /\ wpc = "head"
  /\ current_jpeg < jpeg_count
  /\ mutex = Free
  /\ mutex' = Worker
  /\ wpc' = "locked"
  /\ UNCHANGED <<fragments, all_jpegs, mcu_starts, layers, alive, ops_set,
                 should_terminate, current_jpeg, current_mcu_start, rpc, opc,
                 dpc, aborted, wcalls, pinned, dims,
                 dicom_level, dicom_tile, dicom_open_vars, index_vars>>

\* the worker loop without the test of the flag
check_for_exit_never(flag) == FALSE

\* line 886, the test made under the mutex
check_for_exit(flag) == flag

\* lines 886-889: the flag is set, unlock and leave the loop
WorkerExit ==
  /\ ~aborted
  /\ wpc = "locked"
  /\ check_for_exit(should_terminate)
  /\ mutex' = Free
  /\ wpc' = "done"
  /\ UNCHANGED <<fragments, all_jpegs, mcu_starts, layers, alive, ops_set,
                 should_terminate, current_jpeg, current_mcu_start, rpc, opc,
                 dpc, aborted, wcalls, pinned, dims,
                 dicom_level, dicom_tile, dicom_open_vars, index_vars>>

\* lines 894-905: one slot, then unlock
WorkerSlot ==
  /\ ~aborted
  /\ wpc = "locked"
  /\ ~check_for_exit(should_terminate)
  /\ \E c \in {compute_mcu_start(all_jpegs[current_jpeg],
                                   mcu_starts[current_jpeg], current_mcu_start)} :
     LET wrap == current_mcu_start + 1 >= all_jpegs[current_jpeg].mcu_starts_count
     IN  /\ wcalls' = wcalls + 1
         /\ mcu_starts' = [mcu_starts EXCEPT ![current_jpeg] = c.mcu_starts]
         /\ aborted' = c.aborted
         /\ IF c.aborted
            THEN UNCHANGED <<current_jpeg, current_mcu_start, mutex, wpc>>
            ELSE /\ current_mcu_start' = IF wrap THEN 0 ELSE current_mcu_start + 1
                 /\ current_jpeg' = IF wrap THEN current_jpeg + 1 ELSE current_jpeg
                 /\ mutex' = Free
                 /\ wpc' = "head"
  /\ UNCHANGED <<fragments, all_jpegs, layers, alive, ops_set, should_terminate,
                 rpc, opc, dpc, pinned, dims,
                 dicom_level, dicom_tile, dicom_open_vars, index_vars>>

(***************************************************************************)
(* read_region, called by the readers once the slide is open.  A call may  *)
(* begin until destroy's join has returned; by the library's contract no   *)
(* other thread uses the slide when its memory is released.                *)
(***************************************************************************)
RegionArgs ==
  { [x |-> x, y |-> y, layer |-> layer, w |-> 1, h |-> 1] :
      x \in RegionXs, y \in RegionYs, layer \in 0..(Len(layers) - 1) }

\* read_region without g_mutex_lock: it enters whoever holds the mutex
read_region_unlocked(m) == TRUE

\* line 694: g_mutex_lock returns once the mutex is free
read_region_may_enter(m) == m = Free

RRLock(r) ==
  /\ ~aborted
  /\ ops_set
  /\ dpc <= StepIndex(DestroyOrder, "join")
  /\ rpc[r] = "idle"
  /\ read_region_may_enter(mutex)
  /\ mutex' = Reader(r)
  /\ rpc' = [rpc EXCEPT ![r] = "reading"]
  /\ UNCHANGED <<fragments, all_jpegs, mcu_starts, layers, alive, ops_set,
                 should_terminate, wpc, current_jpeg, current_mcu_start, opc,
                 dpc, aborted, wcalls, pinned, dims,
                 dicom_level, dicom_tile, dicom_open_vars, index_vars>>

\* lines 695-699: the tiles are read, the mutex is released.  With pin in
\* pins true the call is the one remembered in pinned.
RRRead(r, pins) ==
  /\ ~aborted
  /\ rpc[r] = "reading"
  /\ \E a \in RegionArgs, pin \in (IF pinned = None THEN pins ELSE {FALSE}) :
       \E res \in {read_region(layers, all_jpegs, mcu_starts,
                               a.x, a.y, a.layer, a.w, a.h)} :
           /\ mcu_starts' = res.mcu_starts
           /\ aborted' = res.aborted
           /\ pinned' = IF pin /\ pinned = None /\ ~res.aborted
                        THEN [args |-> a, uses |-> res.uses] ELSE pinned
           /\ IF res.aborted
              THEN UNCHANGED <<mutex, rpc>>
              ELSE /\ mutex' = Free
                   /\ rpc' = [rpc EXCEPT ![r] = "idle"]
  /\ UNCHANGED <<fragments, all_jpegs, layers, alive, ops_set, should_terminate,
                 wpc, current_jpeg, current_mcu_start, opc, dpc, wcalls, dims,
                 dicom_level, dicom_tile, dicom_open_vars, index_vars>>

(***************************************************************************)
(* destroy, one step at a time.                                            *)
(***************************************************************************)
DestroyStep ==
  /\ ~aborted
  /\ ops_set
  /\ dpc <= Len(DestroyOrder)
  /\ LET step == DestroyOrder[dpc] IN
       /\ step = "lock" => mutex = Free
       /\ step = "join" => wpc = "done"
       /\ step = "jpegs" => \A r \in Readers : rpc[r] = "idle"
       /\ dpc' = dpc + 1
       /\ mutex' = CASE step = "lock"   -> Destroyer
                     [] step = "unlock" -> Free
                     [] OTHER           -> mutex
       /\ should_terminate' = (should_terminate \/ step = "set")
       /\ alive' = alive \
            (CASE step = "jpegs"       -> {"files", "mcu_starts"}
               [] step = "layer_jpegs" -> {"layer_jpegs"}
               [] step = "all_jpegs"   -> {"all_jpegs"}
               [] step = "layers"      -> {"layers"}
               [] step = "cache"       -> {"cache"}
               [] step = "mutex"       -> {"mutex"}
               [] step = "data"        -> {"data"}
               [] OTHER                -> {})
  /\ UNCHANGED <<fragments, all_jpegs, mcu_starts, layers, ops_set, wpc,
                 current_jpeg, current_mcu_start, rpc, opc, aborted, wcalls,
                 pinned, dims,
                 dicom_level, dicom_tile, dicom_open_vars, index_vars>>

(***************************************************************************)
(* get_dimensions of the JPEG backend, called on an open slide.            *)
(***************************************************************************)
DimLayers == (0 - 1)..(Len(layers) + 1)

GetDimensions ==
  /\ ~aborted
  /\ ops_set
  /\ dpc = 1
  /\ \E layer \in DimLayers :
       \E res \in get_dimensions(layers, layer) :
         dims' = [layer |-> layer, result |-> res]
  /\ UNCHANGED <<jpeg_vars, dicom_level, dicom_tile, dicom_open_vars, index_vars>>

(***************************************************************************)
(* The DICOM backend: level_new and read_tile.                             *)
(* A file is the record of the metadata level_new reads and of the number  *)
(* of frames its Basic Offset Table lists.                                 *)
(***************************************************************************)
\* lines 93-123: the ImageTypes allowed for levels and associated images
original_types == <<"ORIGINAL", "PRIMARY", "VOLUME", "NONE">>
resampled_types == <<"DERIVED", "PRIMARY", "VOLUME", "RESAMPLED">>
level_types == <<original_types, resampled_types>>
label_types == <<"ORIGINAL", "PRIMARY", "LABEL", "NONE">>
overview_types == <<"ORIGINAL", "PRIMARY", "OVERVIEW", "NONE">>
associated_types == <<label_types, overview_types>>

VLWholeSlideMicroscopyImageStorage == "1.2.840.10008.5.1.4.1.1.77.1.6"

\* A file of the directory: its name, whether it opens and its file meta
\* reads (filehandle), its SOP class, whether its metadata and its Basic
\* Offset Table can be read, and the tags the backend reads.  A tag of
\* several values is the sequence of them, a missing tag the empty one.
DicomFile(w, h, tw, th, n) ==
  [filename |-> "level.dcm", filehandle |-> TRUE,
   MediaStorageSOPClassUID |-> VLWholeSlideMicroscopyImageStorage,
   metadata |-> TRUE, bot |-> TRUE,
   SeriesInstanceUID |-> <<"A.1.2.3">>, ImageType |-> original_types,
   TotalPixelMatrixColumns |-> w, TotalPixelMatrixRows |-> h,
   Columns |-> tw, Rows |-> th, num_frames |-> n]

\* widths and heights that are and are not multiples of the tile size; the
\* last is spec scenario S6 (10 x 8 tiles) scaled from 256-pixel tiles to 4
DicomSizes == { <<7, 5>>, <<8, 8>>, <<40, 32>> }

Ceil(a, b) == (a + b - 1) \div b

\* the frame counts of a file of a given size: a full grid, one frame
\* short, and a second full grid after the first
DicomFrameCounts(w, h, t) ==
  { Ceil(w, t) * Ceil(h, t), Ceil(w, t) * Ceil(h, t) - 1,
    2 * Ceil(w, t) * Ceil(h, t) }

DicomFiles ==
  { DicomFile(wh[1], wh[2], 4, 4, n) :
      wh \in DicomSizes, n \in UNION { DicomFrameCounts(s[1], s[2], 4) : s \in DicomSizes } }
  \cup { DicomFile(8, 8, 4, 8, 2) }

\* read_whole_file, lines 577-599
read_whole_file(f) == f.metadata /\ f.bot

\* the inner loop of is_type from element j on: get_tag_str fails
\* ("missing"), an element differs, or all four are the same
RECURSIVE compare_type(_, _, _)
compare_type(image_type, type, j) ==
  IF ~(j < 4) THEN "same"
  ELSE IF ~(j < Len(image_type)) THEN "missing"
  ELSE IF image_type[j + 1] # type[j + 1] THEN "difference"
  ELSE compare_type(image_type, type, j + 1)

\* the outer loop of is_type from allowed type i on
RECURSIVE is_type_from(_, _, _)
is_type_from(f, types, i) ==
  IF ~(i < Len(types)) THEN FALSE
  ELSE IF compare_type(f.ImageType, types[i + 1], 0) = "missing" THEN FALSE
  ELSE IF compare_type(f.ImageType, types[i + 1], 0) = "same" THEN TRUE
  ELSE is_type_from(f, types, i + 1)

\* every file passes
is_type_any(f, types) == TRUE

\* is_type, lines 511-536
is_type(f, types) == is_type_from(f, types, 0)

\* level_new, lines 640-676; the four integer tags are present in every
\* file of the model.  The Level is zeroed when allocated and level_new
\* assigns no downsample.
level_new(f) ==
  IF ~read_whole_file(f) THEN None
  ELSE IF ~is_type(f, level_types) THEN None
  ELSE IF f.Columns # f.Rows THEN None
  ELSE [file         |-> f.filename,
        downsample   |-> 0,
        image_width  |-> f.TotalPixelMatrixColumns,
        image_height |-> f.TotalPixelMatrixRows,
        tile_w       |-> f.Columns,
        tile_h       |-> f.Rows,
        num_frames   |-> f.num_frames,
        tiles_across |-> (f.TotalPixelMatrixColumns \div f.Columns)
                         + (IF f.TotalPixelMatrixColumns % f.Columns # 0 THEN 1 ELSE 0),
        tiles_down   |-> (f.TotalPixelMatrixRows \div f.Rows)
                         + (IF f.TotalPixelMatrixRows % f.Rows # 0 THEN 1 ELSE 0)]

\* frame_number is a guint32.  TLC's integers are 32 bits wide, so the
\* conversion wraps at 2^16 here: like 2^32 it is above every frame count
\* and every sum of the model, and a negative sum becomes a large number.
guint32(v) == v % (2 ^ 16)

\* the frame number counted from 0, as a tile index is
frame_number_from_zero(l, tile_col, tile_row) ==
  guint32(tile_col + l.tiles_across * tile_row)

\* line 408
frame_number(l, tile_col, tile_row) ==
  guint32(1 + tile_col + l.tiles_across * tile_row)

\* read_tile on a cache miss, up to the call of dcm_filehandle_read_frame
read_tile(l, tile_col, tile_row) ==
  IF frame_number(l, tile_col, tile_row) < 1
     \/ frame_number(l, tile_col, tile_row) > l.num_frames
  THEN [status |-> "out_of_range", frame |-> 0]
  ELSE [status |-> "frame_read", frame |-> frame_number(l, tile_col, tile_row)]

LevelNew ==
  /\ dicom_level = None
  /\ \E f \in DicomFiles :
       /\ level_new(f) # None
       /\ dicom_level' = level_new(f)
  /\ UNCHANGED <<jpeg_vars, dims, dicom_tile, dicom_open_vars, index_vars>>

\* the tiles asked for: the grid, one column and one row beyond it, and
\* the column before it
ReadTile ==
  /\ dicom_level # None
  /\ \E tile_col \in (0 - 1)..(dicom_level.tiles_across + 1),
        tile_row \in 0..dicom_level.tiles_down :
       dicom_tile' = [tile_col |-> tile_col, tile_row |-> tile_row,
                      result |-> read_tile(dicom_level, tile_col, tile_row)]
  /\ UNCHANGED <<jpeg_vars, dims, dicom_level, dicom_open_vars, index_vars>>

(***************************************************************************)
(* dicom_open: the directory scan, the series filter, the levels and the   *)
(* associated images.  A directory is a function from the names of its     *)
(* files to the files.                                                     *)
(***************************************************************************)
\* dicom_file_new, lines 331-359: TRUE when a DicomFile is made
dicom_file_new(f) ==
  /\ f.filehandle
  /\ f.MediaStorageSOPClassUID = VLWholeSlideMicroscopyImageStorage

\* no file is removed
remove_bad_slide_id_never(f, slide_id) == FALSE

\* remove_bad_slide_id, lines 693-712: TRUE to remove the file
remove_bad_slide_id(f, slide_id) ==
  IF ~f.metadata THEN TRUE
  ELSE Len(f.SeriesInstanceUID) = 0 \/ f.SeriesInstanceUID[1] # slide_id

\* find_levels, lines 678-691: TRUE when the file is stolen for a level
find_levels(f) == level_new(f) # None

\* associated_new, lines 601-638
associated_new(f) ==
  IF ~read_whole_file(f) THEN None
  ELSE IF ~is_type(f, associated_types) THEN None
  ELSE IF ~(2 < Len(f.ImageType)) THEN None
  ELSE [file |-> f.filename,
        name |-> f.ImageType[3],
        w    |-> f.TotalPixelMatrixColumns,
        h    |-> f.TotalPixelMatrixRows]

\* lines 752-759: the openslide name of an associated image, "" for none
openslide_name(a) ==
  IF a.name = "LABEL" THEN "label"
  ELSE IF a.name = "OVERVIEW" THEN "macro"
  ELSE ""

\* find_associated, lines 743-769: TRUE when the file is stolen
find_associated(f) ==
  IF associated_new(f) = None THEN FALSE
  ELSE openslide_name(associated_new(f)) # ""

\* osr->associated_images after find_associated has run over the files
\* named: the hash table keeps, for each name, the image inserted last,
\* and the order of the traversal is the hash table's
associated_images_of(dir, names) ==
  LET keys == { openslide_name(associated_new(dir[n])) : n \in names } IN
  { [k \in keys |-> associated_new(dir[am[k]])] :
      am \in { c \in [keys -> names] :
                 \A k \in keys : openslide_name(associated_new(dir[c[k]])) = k } }

\* The conversion of an int64_t to gint, which is 32 bits wide.  TLC's
\* integers are 32 bits wide themselves, so the model scales both: a
\* width is any integer of the model and a gint keeps its low 16 bits.
gint(v) == ((v + 2 ^ 15) % (2 ^ 16)) - 2 ^ 15

\* compare_level_width, lines 771-776
compare_level_width(aa, bb) == gint(bb.image_width - aa.image_width)

\* the orders a set can be put in
Orders(S) ==
  { p \in [1..Cardinality(S) -> S] :
      \A i, j \in 1..Cardinality(S) : i # j => p[i] # p[j] }

\* g_ptr_array_sort with compare_level_width, line 917: an order in which
\* the comparator puts no element after its successor; any order when the
\* comparator allows none
g_ptr_array_sort(S) ==
  LET sorted == { p \in Orders(S) :
                    \A i \in 1..(Cardinality(S) - 1) :
                      compare_level_width(p[i], p[i + 1]) <= 0 }
  IN  IF sorted = {} THEN Orders(S) ELSE sorted

\* a directory g_dir_open cannot open
NoDirectory == None

\* g_dir_open, line 824: it sets the error when it fails
g_dir_open(dir) == dir # NoDirectory

\* dicom_open returning false; err tells whether the error output was set
dicom_open_failed(err) ==
  [ok |-> FALSE, levels |-> <<>>, associated_images |-> <<>>, err |-> err]

\* dicom_open from line 876 on: kept are the files left by the series filter
dicom_open_series(dir, kept) ==
  LET level_hash == { n \in kept : find_levels(dir[n]) } IN
  IF level_hash = {} THEN {dicom_open_failed(TRUE)}
  ELSE { [ok |-> TRUE, levels |-> ls, associated_images |-> ai, err |-> FALSE] :
           ls \in g_ptr_array_sort({ level_new(dir[n]) : n \in level_hash }),
           ai \in associated_images_of(dir,
                    { n \in kept \ level_hash : find_associated(dir[n]) }) }

\* dicom_open, lines 817-953: the set of its outcomes
dicom_open(dir, filename) ==
  IF ~g_dir_open(dir) THEN {dicom_open_failed(TRUE)}
  ELSE
  LET dicom_file_hash == { n \in DOMAIN dir : dicom_file_new(dir[n]) } IN
  IF filename \notin dicom_file_hash THEN {dicom_open_failed(TRUE)}
  ELSE IF ~read_whole_file(dir[filename]) THEN {dicom_open_failed(FALSE)}
  ELSE IF Len(dir[filename].SeriesInstanceUID) = 0 THEN {dicom_open_failed(FALSE)}
  ELSE dicom_open_series(dir,
         { n \in dicom_file_hash :
             ~remove_bad_slide_id(dir[n], dir[filename].SeriesInstanceUID[1]) })

\* paint_region, lines 477-504: the coordinates handed to
\* _openslide_grid_paint_region.  x / downsample is a division of doubles;
\* by 0 it is an infinity or a NaN, whose conversion to int64_t is undefined.
paint_region(l, x, y) ==
  IF l.downsample = 0
  THEN { [x |-> gx, y |-> gy, defined |-> FALSE] :
           gx \in GarbageValues, gy \in GarbageValues }
  ELSE { [x |-> x \div l.downsample, y |-> y \div l.downsample,
          defined |-> TRUE] }

\* The files a directory is made of.  The widths are those of spec scenario
\* S5, and one that is more than a gint above the smaller ones.
DicomNames == {"a.dcm", "b.dcm", "c.dcm"}

DicomKind(series, type, w) ==
  [DicomFile(w, (w * 4) \div 5, 4, 4, Ceil(w, 4) * Ceil((w * 4) \div 5, 4))
     EXCEPT !.SeriesInstanceUID = series, !.ImageType = type]

DicomKinds ==
  { DicomKind(<<"A.1.2.3">>, original_types, 10000),
    DicomKind(<<"A.1.2.3">>, resampled_types, 5000),
    DicomKind(<<"A.1.2.3">>, resampled_types, 2500),
    DicomKind(<<"A.1.2.3">>, resampled_types, 40000),
    DicomKind(<<"A.9.9.9">>, original_types, 8000),
    DicomKind(<<"A.1.2.3">>, label_types, 300),
    DicomKind(<<"A.1.2.3">>, overview_types, 400),
    DicomKind(<<"A.9.9.9">>, label_types, 500),
    DicomKind(<<>>, original_types, 6000),
    DicomKind(<<"A.1.2.3">>, <<"ORIGINAL", "PRIMARY", "VOLUME">>, 6000),
    DicomKind(<<"A.1.2.3">>, <<"ORIGINAL", "PRIMARY", "VOLUME", "NONE", "EXTRA">>, 6000),
    DicomKind(<<"A.1.2.3">>, <<"ORIGINAL", "PRIMARY", "LABEL", "NONE", "EXTRA">>, 600),
    DicomKind(<<"A.1.2.3">>, <<"DERIVED", "PRIMARY", "VOLUME", "NONE">>, 6000),
    DicomKind(<<"A.1.2.3">>, <<"ORIGINAL", "PRIMARY", "THUMBNAIL", "RESAMPLED">>, 700),
    [DicomKind(<<"A.1.2.3">>, original_types, 6000) EXCEPT !.Rows = 8],
    [DicomKind(<<"A.1.2.3">>, original_types, 6000) EXCEPT !.metadata = FALSE],
    [DicomKind(<<"A.1.2.3">>, original_types, 6000) EXCEPT !.bot = FALSE],
    [DicomKind(<<"A.1.2.3">>, original_types, 6000) EXCEPT !.filehandle = FALSE],
    [DicomKind(<<"A.1.2.3">>, original_types, 6000)
       EXCEPT !.MediaStorageSOPClassUID = "1.2.840.10008.5.1.4.1.1.7"] }

Directories ==
  { [n \in DicomNames |-> [k[n] EXCEPT !.filename = n]] :
      k \in [DicomNames -> DicomKinds] }

PaintXs == {0, 10000}
PaintYs == {8000}

DicomThreads == 1..NumReaders

DicomOpen ==
  /\ dicom_dir # None
  /\ dicom_slide = None
  /\ \E res \in dicom_open(dicom_dir.files, dicom_dir.filename) :
       dicom_slide' = res
  /\ UNCHANGED <<jpeg_vars, index_vars, dicom_call, dicom_cache, dims, dicom_level, dicom_tile, dicom_dir,
                 dicom_paint, dicom_lock, dicom_pc>>

PaintRegion ==
  /\ dicom_slide # None
  /\ dicom_slide.ok
  /\ \E level \in 1..Len(dicom_slide.levels), x \in PaintXs, y \in PaintYs :
       \E res \in paint_region(dicom_slide.levels[level], x, y) :
         dicom_paint' = [level |-> level - 1, x |-> x, y |-> y, result |-> res]
  /\ UNCHANGED <<jpeg_vars, index_vars, dicom_call, dicom_cache, dims, dicom_level, dicom_tile, dicom_dir,
                 dicom_slide, dicom_lock, dicom_pc>>

(***************************************************************************)
(* Threads reading an open DICOM slide: read_tile on a cache miss and      *)
(* associated_get_argb_data, up to the return of                           *)
(* dcm_filehandle_read_frame.  dicom_lock[n] is the thread holding the     *)
(* lock of file n, 0 for none.                                             *)
(***************************************************************************)
DicomIdle == [at |-> "idle", file |-> "", path |-> ""]

\* read_tile, line 417: g_mutex_lock returns
TileLock(t) ==
  /\ dicom_slide # None
  /\ dicom_slide.ok
  /\ dicom_pc[t] = DicomIdle
  /\ \E i \in DOMAIN dicom_slide.levels :
       /\ dicom_lock[dicom_slide.levels[i].file] = 0
       /\ dicom_lock' = [dicom_lock EXCEPT ![dicom_slide.levels[i].file] = t]
       /\ dicom_pc' = [dicom_pc EXCEPT ![t] =
            [at |-> "locked", file |-> dicom_slide.levels[i].file, path |-> "tile"]]
  /\ UNCHANGED <<jpeg_vars, index_vars, dicom_call, dicom_cache, dims, dicom_level, dicom_tile, dicom_dir,
                 dicom_slide, dicom_paint>>

\* read_tile, line 420: the thread enters dcm_filehandle_read_frame
TileReadFrame(t) ==
  /\ dicom_pc[t].at = "locked"
  /\ dicom_pc' = [dicom_pc EXCEPT ![t].at = "read_frame"]
  /\ UNCHANGED <<jpeg_vars, index_vars, dicom_call, dicom_cache, dims, dicom_level, dicom_tile, dicom_dir,
                 dicom_slide, dicom_paint, dicom_lock>>

\* read_tile, lines 424-426: read_frame returns and the lock is released
TileUnlock(t) ==
  /\ dicom_pc[t].at = "read_frame"
  /\ dicom_pc[t].path = "tile"
  /\ dicom_lock' = [dicom_lock EXCEPT ![dicom_pc[t].file] = 0]
  /\ dicom_pc' = [dicom_pc EXCEPT ![t] = DicomIdle]
  /\ UNCHANGED <<jpeg_vars, index_vars, dicom_call, dicom_cache, dims, dicom_level, dicom_tile, dicom_dir,
                 dicom_slide, dicom_paint>>

\* associated_get_argb_data, line 544: the thread enters
\* dcm_filehandle_read_frame
AssociatedReadFrame(t) ==
  /\ dicom_slide # None
  /\ dicom_slide.ok
  /\ dicom_pc[t] = DicomIdle
  /\ \E k \in DOMAIN dicom_slide.associated_images :
       dicom_pc' = [dicom_pc EXCEPT ![t] =
         [at |-> "read_frame", file |-> dicom_slide.associated_images[k].file,
          path |-> "associated"]]
  /\ UNCHANGED <<jpeg_vars, index_vars, dicom_call, dicom_cache, dims, dicom_level, dicom_tile, dicom_dir,
                 dicom_slide, dicom_paint, dicom_lock>>

\* associated_get_argb_data, lines 548-563: read_frame returns
AssociatedReturn(t) ==
  /\ dicom_pc[t].at = "read_frame"
  /\ dicom_pc[t].path = "associated"
  /\ dicom_pc' = [dicom_pc EXCEPT ![t] = DicomIdle]
  /\ UNCHANGED <<jpeg_vars, index_vars, dicom_call, dicom_cache, dims, dicom_level, dicom_tile, dicom_dir,
                 dicom_slide, dicom_paint, dicom_lock>>

(***************************************************************************)
(* One read_tile call of the DICOM backend, step by step.  The outcomes of *)
(* dcm_filehandle_read_frame, _openslide_jpeg_decode_buffer and            *)
(* _openslide_clip_tile, which are outside the repository, are any of      *)
(* success and failure; a failure of theirs sets the error they are given. *)
(***************************************************************************)
\* read_tile with the lock released after the test of the frame
ReadTileOrderUnlockLate ==
  <<"cache_get", "alloc", "range", "lock", "read_frame", "null_check",
    "unlock", "decode", "clip", "put">>

\* read_tile with the lock taken before the test of the frame number
ReadTileOrderLockEarly ==
  <<"cache_get", "alloc", "lock", "range", "read_frame", "unlock",
    "null_check", "decode", "clip", "put">>

\* the order of read_tile, lines 400-467
ReadTileOrder ==
  <<"cache_get", "alloc", "range", "lock", "read_frame", "unlock",
    "null_check", "decode", "clip", "put">>

\* dicom_open, line 936: data->tile_size
tile_size_of(slide) == slide.levels[1].tile_w

\* the thread that makes the call
DicomCaller == 1

\* the tiles asked for: the first tile of a level and the tile below its
\* last row
ReadTileCall ==
  /\ dicom_slide # None
  /\ dicom_slide.ok
  /\ IF dicom_call = None THEN TRUE ELSE dicom_call.ret # "none"
  /\ \E level \in 1..Len(dicom_slide.levels) :
       \E tile_row \in {0, dicom_slide.levels[level].tiles_down} :
         dicom_call' = [pc |-> 1, level |-> level, tile_col |-> 0,
                        tile_row |-> tile_row, box |-> 0, written |-> 0,
                        frame |-> FALSE, err |-> FALSE, ret |-> "none"]
  /\ UNCHANGED <<jpeg_vars, index_vars, dims, dicom_level, dicom_tile, dicom_dir,
                 dicom_slide, dicom_paint, dicom_lock, dicom_pc, dicom_cache>>

\* the call returns false with the error set; the box is freed on return
ReadTileFails(c) == [c EXCEPT !.err = TRUE, !.ret = "false", !.box = 0]

\* the state of the call after the step named, ok being the outcome of
\* the library call the step makes
read_tile_step(c, l, step, ok, hit) ==
  CASE step = "cache_get" ->
         IF hit THEN [c EXCEPT !.ret = "true"] ELSE [c EXCEPT !.pc = @ + 1]
    [] step = "alloc" ->
         [c EXCEPT !.pc = @ + 1,
                   !.box = tile_size_of(dicom_slide) * tile_size_of(dicom_slide) * 4]
    [] step = "range" ->
         IF read_tile(l, c.tile_col, c.tile_row).status = "out_of_range"
         THEN ReadTileFails(c) ELSE [c EXCEPT !.pc = @ + 1]
    [] step = "read_frame" -> [c EXCEPT !.pc = @ + 1, !.frame = ok]
    [] step = "null_check" ->
         IF ~c.frame THEN ReadTileFails(c) ELSE [c EXCEPT !.pc = @ + 1]
    [] step = "decode" ->
         IF ok THEN [c EXCEPT !.pc = @ + 1, !.written = l.tile_w * l.tile_h * 4]
         ELSE [ReadTileFails(c) EXCEPT !.written = l.tile_w * l.tile_h * 4]
    [] step = "clip" ->
         IF ok THEN [c EXCEPT !.pc = @ + 1] ELSE ReadTileFails(c)
    [] step = "put" -> [c EXCEPT !.ret = "true"]
    [] OTHER -> [c EXCEPT !.pc = @ + 1]

ReadTileStep ==
  /\ dicom_call # None
  /\ dicom_call.ret = "none"
  /\ LET step == ReadTileOrder[dicom_call.pc]
         l    == dicom_slide.levels[dicom_call.level]
         key  == [level |-> dicom_call.level, tile_col |-> dicom_call.tile_col,
                  tile_row |-> dicom_call.tile_row]
     IN  /\ step = "lock" => dicom_lock[l.file] = 0
         /\ \E ok \in BOOLEAN :
              dicom_call' = read_tile_step(dicom_call, l, step, ok,
                                           \E e \in dicom_cache : e.key = key)
         /\ dicom_lock' =
              IF step = "lock" THEN [dicom_lock EXCEPT ![l.file] = DicomCaller]
              ELSE IF step = "unlock" THEN [dicom_lock EXCEPT ![l.file] = 0]
              ELSE dicom_lock
         /\ dicom_cache' =
              IF step = "put"
              THEN dicom_cache \cup {[key |-> key, size |-> dicom_call.box]}
              ELSE dicom_cache
  /\ UNCHANGED <<jpeg_vars, index_vars, dims, dicom_level, dicom_tile, dicom_dir,
                 dicom_slide, dicom_paint, dicom_pc>>

(***************************************************************************)
(* compute_mcu_start on its own: one JPEG, its index, and calls for any    *)
(* target in any order.  Beside the index the same calls are made on the   *)
(* same file with no hints.                                                *)
(***************************************************************************)
\* the file operations of one compute_mcu_start call: the fseeko calls, the
\* two-byte fread of the hint test, and whether the forward scan is entered
compute_mcu_start_io(oj, starts, target) ==
  IF starts[target] # -1
  THEN [fseeko |-> 0, fread |-> 0, scan |-> FALSE]
  ELSE LET offset == IF oj.unreliable_mcu_starts = NoHints THEN -1
                     ELSE oj.unreliable_mcu_starts[target]
       IN  IF offset = -1
           THEN [fseeko |-> 1, fread |-> 0, scan |-> TRUE]
           ELSE IF hint_is_marker(oj.f, oj.file_size, offset)
           THEN [fseeko |-> 1, fread |-> 1, scan |-> FALSE]
           ELSE [fseeko |-> 2, fread |-> 1, scan |-> TRUE]

IndexMenu ==
  JpegMenu \cup { [f |-> FileFull, mcu_starts |-> Hints(11, 4, -1)] }

without_hints(oj) == [oj EXCEPT !.unreliable_mcu_starts = NoHints]

InitIndexCall ==
  \E m \in IndexMenu :
    index_call = [oj            |-> init_one_jpeg(Fragment(m, 0, 0, 0)),
                  mcu_starts    |-> init_optimization(Fragment(m, 0, 0, 0)),
                  aborted       |-> FALSE,
                  plain         |-> init_optimization(Fragment(m, 0, 0, 0)),
                  plain_aborted |-> FALSE,
                  last          |-> None]

index_call_after(ic, target, c, p) ==
  [ic EXCEPT !.mcu_starts    = c.mcu_starts,
             !.aborted       = c.aborted,
             !.plain         = IF ic.plain_aborted THEN @ ELSE p.mcu_starts,
             !.plain_aborted = @ \/ p.aborted,
             !.last          = [target |-> target,
                                before |-> ic.mcu_starts,
                                io     |-> compute_mcu_start_io(ic.oj, ic.mcu_starts, target)]]

ComputeMcuStart ==
  /\ index_call # None
  /\ ~index_call.aborted
  /\ \E target \in 1..(index_call.oj.mcu_starts_count - 1) :
       index_call' =
         index_call_after(index_call, target,
           compute_mcu_start(index_call.oj, index_call.mcu_starts, target),
           compute_mcu_start(without_hints(index_call.oj), index_call.plain, target))
  /\ UNCHANGED <<jpeg_vars, dims, dicom_level, dicom_tile, dicom_open_vars,
                 scan_run, tile_stream, tile_pick>>

(***************************************************************************)
(* find_next_ff_marker on its own: one byte stream, read from its first    *)
(* byte with a buffer of a size of its own, by successive calls that share *)
(* the buffer as the calls of compute_mcu_start's loop do (lines 503-513). *)
(***************************************************************************)
\* the longest stream
MaxScanLen == 5

\* the bytes of the streams: a stuffing zero, a data byte, a restart marker,
\* EOI and 0xFF
ScanBytes == {0, 7, 208, 217, 255}

RECURSIVE Streams(_)
Streams(n) ==
  IF n = 0 THEN {<<>>}
  ELSE Streams(n - 1) \cup
       {Append(s, b) : s \in {t \in Streams(n - 1) : Len(t) = n - 1}, b \in ScanBytes}

InitScanRun ==
  \E f \in Streams(MaxScanLen), buf_size \in 1..BufSize :
    scan_run = [f |-> f, buf_size |-> buf_size, file_pos |-> 0,
                bytes_in_buf |-> 0, pairs |-> <<>>, recorded |-> <<>>,
                eoi |-> FALSE, done |-> FALSE]

\* the state after a call that returned r; lines 519-525 decide what the
\* caller records
scan_run_after(sr, r) ==
  IF ~(r.after_marker_pos > 0)
  THEN [sr EXCEPT !.done = TRUE, !.file_pos = r.file_pos,
                  !.bytes_in_buf = r.bytes_in_buf]
  ELSE [sr EXCEPT !.file_pos = r.file_pos,
                  !.bytes_in_buf = r.bytes_in_buf,
                  !.pairs = Append(@, <<r.marker, r.after_marker_pos>>),
                  !.eoi = @ \/ r.marker = JPEG_EOI,
                  !.recorded = IF ~sr.eoi /\ r.marker # JPEG_EOI
                                  /\ is_restart_marker(r.marker)
                               THEN Append(@, r.after_marker_pos) ELSE @]

FindNextFfMarker ==
  /\ scan_run # None
  /\ ~scan_run.done
  /\ scan_run' =
       scan_run_after(scan_run,
         find_next_ff_marker(scan_run.f, scan_run.buf_size, Len(scan_run.f),
                             scan_run.file_pos, scan_run.bytes_in_buf, FALSE))
  /\ UNCHANGED <<jpeg_vars, dims, dicom_level, dicom_tile, dicom_open_vars,
                 index_call, tile_stream, tile_pick>>

(***************************************************************************)
(* jpeg_random_access_src and its caller read_from_one_jpeg on one JPEG.   *)
(* g_return_if_fail logs a critical warning and returns from the function; *)
(* the function is void, so its caller goes on.  A buffer of a size below  *)
(* one segment byte, or filled from offsets that are not in the file, is   *)
(* undefined behaviour: the process ends there or the call returns with a  *)
(* buffer of which nothing is known; a negative size cannot be allocated,  *)
(* and a start of -1 with a later stop leaves a part of the buffer unset.  *)
(***************************************************************************)
\* lines 157-167: the two parts read into the buffer
stream_parts(f, header_stop_position, start_position, stop_position) ==
  SubSeq(f, 1, header_stop_position)
    \o SubSeq(f, start_position + 1, stop_position)

\* lines 169-172: the two tests and the last byte
stream_checked(buffer, header_stop_position) ==
  IF buffer[header_stop_position + 1] = 255
  THEN [ended |-> FALSE, undefined |-> FALSE, buffer |-> buffer, rewritten |-> FALSE]
  ELSE IF buffer[Len(buffer) - 1] # 255
  THEN [ended |-> FALSE, undefined |-> FALSE, buffer |-> buffer, rewritten |-> FALSE]
  ELSE [ended |-> FALSE, undefined |-> FALSE,
        buffer |-> [buffer EXCEPT ![Len(buffer)] = JPEG_EOI], rewritten |-> TRUE]

jpeg_random_access_src(f, file_size, header_stop_position, start_position, stop_position) ==
  IF /\ 0 <= start_position
     /\ start_position < stop_position
     /\ stop_position <= file_size
     /\ header_stop_position <= file_size
     /\ header_stop_position + stop_position - start_position >= 2
  THEN {stream_checked(stream_parts(f, header_stop_position, start_position,
                                    stop_position), header_stop_position)}
  ELSE {[ended |-> e, undefined |-> TRUE, buffer |-> <<>>, rewritten |-> FALSE] :
          e \in IF header_stop_position + stop_position - start_position < 0
                THEN {TRUE}     \* g_slice_alloc of a negative size
                ELSE IF start_position < 0 /\ start_position < stop_position
                THEN {FALSE}    \* the seek fails, the read is short
                ELSE BOOLEAN}

\* segment starts at 2, 5, 10, 13; the second segment begins with a stuffed
\* FF 00
FileStuffed == JpegFile(<<63, 0, 1, 255, 208, 255, 0, 2, 255, 209, 3, 255, 210, 4, 255, 217>>)
\* all three restart markers, the file ending without EOI
FileNoEoi == JpegFile(<<63, 0, 1, 255, 208, 2, 255, 209, 3, 255, 210, 4, 5>>)

StreamMenu ==
  { [f |-> FileFull,    mcu_starts |-> NoHints],
    [f |-> FileFull,    mcu_starts |-> Hints(5, 8, 11)],
    [f |-> FileFull,    mcu_starts |-> Hints(11, 5, -1)],
    [f |-> FileShort,   mcu_starts |-> NoHints],
    [f |-> FileStuffed, mcu_starts |-> NoHints],
    [f |-> FileNoEoi,   mcu_starts |-> NoHints] }

InitStreamCall ==
  \E m \in StreamMenu :
    index_call = [oj            |-> init_one_jpeg(Fragment(m, 0, 0, 0)),
                  mcu_starts    |-> init_optimization(Fragment(m, 0, 0, 0)),
                  aborted       |-> FALSE,
                  plain         |-> init_optimization(Fragment(m, 0, 0, 0)),
                  plain_aborted |-> FALSE,
                  last          |-> None]

\* lines 573-578: jpeg_read_header and jpeg_start_decompress follow the call
\* of jpeg_random_access_src whatever it did
decoder_runs(out) == ~out.ended

\* read_from_one_jpeg for the tile at (x, y), r being the index and the
\* offsets after lines 537-559
ReadFromOneJpegAt(x, y, r) ==
  IF r.aborted
  THEN /\ index_call' = [index_call EXCEPT !.mcu_starts = r.mcu_starts,
                                            !.aborted = TRUE]
       /\ UNCHANGED tile_stream
  ELSE \E out \in jpeg_random_access_src(index_call.oj.f, index_call.oj.file_size,
                    r.use.header_stop_position, r.use.start_position,
                    r.use.stop_position) :
         /\ index_call' = [index_call EXCEPT !.mcu_starts = r.mcu_starts,
                                              !.aborted = out.ended]
         /\ tile_stream' = [mcu_start   |-> segment_of_tile(index_call.oj, x, y),
                            use         |-> r.use,
                            out         |-> out,
                            decoder_ran |-> decoder_runs(out)]

ReadFromOneJpeg ==
  /\ index_call # None
  /\ ~index_call.aborted
  /\ \E x \in {0, index_call.oj.tile_width}, y \in {0, index_call.oj.tile_height} :
       ReadFromOneJpegAt(x, y,
         read_from_one_jpeg(index_call.oj, index_call.mcu_starts, x, y))
  /\ UNCHANGED <<jpeg_vars, dims, dicom_level, dicom_tile, dicom_open_vars,
                 scan_run, tile_pick>>

(***************************************************************************)
(* tilereader_read on its own, on the layers of an opened slide.           *)
(***************************************************************************)
\* level pixels of layer l: the origin, the last pixel of image (0,0), the
\* first pixel after it and the last pixel of the level, on either axis
SrcXs(l) ==
  {x \in {0, (l.image00_w \div l.scale_denom) - 1, l.image00_w \div l.scale_denom,
          (l.pixel_w \div l.scale_denom) - 1} :
     0 <= x /\ x < l.pixel_w \div l.scale_denom}

SrcYs(l) ==
  {y \in {0, (l.image00_h \div l.scale_denom) - 1, l.image00_h \div l.scale_denom,
          (l.pixel_h \div l.scale_denom) - 1} :
     0 <= y /\ y < l.pixel_h \div l.scale_denom}

\* the read went past the index of its JPEG
out_of_index(r) ==
  /\ r.uses # <<>>
  /\ "out_of_index" \in DOMAIN r.uses[1].offsets

TilereaderReadAt(layer, src_x, src_y, s, r) ==
  /\ mcu_starts' = r.mcu_starts
  /\ aborted' \in (IF out_of_index(r) THEN BOOLEAN ELSE {r.aborted})
  /\ tile_pick' = [layer |-> layer, src_x |-> src_x, src_y |-> src_y,
                   select |-> s,
                   jpeg |-> IF r.uses = <<>> THEN -1 ELSE r.uses[1].jpeg,
                   offsets |-> IF r.uses = <<>> THEN None ELSE r.uses[1].offsets]

TilereaderRead ==
  /\ ~aborted
  /\ ops_set
  /\ \E layer \in 1..Len(layers) :
       \E src_x \in SrcXs(layers[layer]), src_y \in SrcYs(layers[layer]) :
         TilereaderReadAt(layer, src_x, src_y,
           tilereader_select(layers[layer], src_x, src_y),
           tilereader_read(layers[layer], all_jpegs, mcu_starts, src_x, src_y))
  /\ UNCHANGED <<fragments, all_jpegs, layers, alive, ops_set, mutex,
                 should_terminate, wpc, current_jpeg, current_mcu_start, rpc,
                 opc, dpc, wcalls, pinned, dims, dicom_level, dicom_tile,
                 dicom_open_vars, index_call, scan_run, tile_stream>>

\* no index, stream or buffer is looked at on its own
NoIndexCall ==
  /\ index_call = None
  /\ scan_run = None
  /\ tile_stream = None
  /\ tile_pick = None

\* no DICOM slide is opened
NoDicomSlide ==
  /\ NoIndexCall
  /\ dicom_dir = None
  /\ dicom_slide = None
  /\ dicom_paint = None
  /\ dicom_lock = <<>>
  /\ dicom_pc = <<>>
  /\ dicom_call = None
  /\ dicom_cache = {}

Init ==
  /\ InitJpeg(Slides)
  /\ dims = None
  /\ dicom_level = None
  /\ dicom_tile = None
  /\ NoDicomSlide

Next ==
  \/ OpenStep
  \/ WorkerReturn
  \/ WorkerLock
  \/ WorkerExit
  \/ WorkerSlot
  \/ \E r \in Readers : RRLock(r)
  \/ \E r \in Readers : RRRead(r, {FALSE})
  \/ DestroyStep

vars == <<fragments, all_jpegs, mcu_starts, layers, alive, ops_set, mutex,
          should_terminate, wpc, current_jpeg, current_mcu_start, rpc,
          opc, dpc, aborted, wcalls, pinned, dims,
                 dicom_level, dicom_tile, dicom_open_vars, index_vars>>

Spec == Init /\ [][Next]_vars

(***************************************************************************)
(* One reader whose calls may be remembered, for the comparison of a call  *)
(* with a later call of the same arguments.                                *)
(***************************************************************************)
RereadMenu ==
  { [f |-> FileFull, mcu_starts |-> NoHints],
    [f |-> FileFull, mcu_starts |-> Hints(5, 8, 11)],
    [f |-> FileFull, mcu_starts |-> Hints(11, 5, -1)],
    [f |-> FileFill, mcu_starts |-> Hints(-1, 11, -1)] }

RereadSlides ==
  { <<Fragment(a, 0, 0, 0),
      Fragment([f |-> FileShort, mcu_starts |-> NoHints], 0, 1, 0)>> :
      a \in RereadMenu }

InitReread ==
  /\ InitJpeg(RereadSlides)
  /\ dims = None
  /\ dicom_level = None
  /\ dicom_tile = None
  /\ NoDicomSlide

NextReread ==
  \/ OpenStep
  \/ WorkerReturn
  \/ WorkerLock
  \/ WorkerExit
  \/ WorkerSlot
  \/ RRLock(1)
  \/ RRRead(1, BOOLEAN)
  \/ DestroyStep

SpecReread == InitReread /\ [][NextReread]_vars

(***************************************************************************)
(* get_dimensions on an open JPEG slide.                                   *)
(***************************************************************************)
NextDims ==
  \/ OpenStep
  \/ GetDimensions

SpecDims == Init /\ [][NextDims]_vars

(***************************************************************************)
(* The DICOM level and its tile reads.                                     *)
(***************************************************************************)
InitDicom ==
  /\ InitJpeg({<<Fragment([f |-> FileFull, mcu_starts |-> NoHints], 0, 0, 0)>>})
  /\ dims = None
  /\ dicom_level = None
  /\ dicom_tile = None
  /\ NoDicomSlide

NextDicom ==
  \/ LevelNew
  \/ ReadTile

SpecDicom == InitDicom /\ [][NextDicom]_vars

(***************************************************************************)
(* dicom_open on a directory, and paint_region on the slide it makes.      *)
(***************************************************************************)
InitDicomDir(dirs) ==
  /\ InitJpeg({<<Fragment([f |-> FileFull, mcu_starts |-> NoHints], 0, 0, 0)>>})
  /\ dims = None
  /\ dicom_level = None
  /\ dicom_tile = None
  /\ dicom_dir \in { [files |-> d, filename |-> n] : d \in dirs, n \in DicomNames }
  /\ dicom_slide = None
  /\ dicom_paint = None
  /\ dicom_lock = [n \in DicomNames |-> 0]
  /\ dicom_pc = [t \in DicomThreads |-> DicomIdle]
  /\ dicom_call = None
  /\ dicom_cache = {}
  /\ NoIndexCall

InitDicomOpen == InitDicomDir(Directories \cup {NoDirectory})

NextDicomOpen ==
  \/ DicomOpen
  \/ PaintRegion

SpecDicomOpen == InitDicomOpen /\ [][NextDicomOpen]_vars

(***************************************************************************)
(* Threads reading tiles and associated images of an open DICOM slide.     *)
(***************************************************************************)
ThreadKinds ==
  { DicomKind(<<"A.1.2.3">>, original_types, 10000),
    DicomKind(<<"A.1.2.3">>, resampled_types, 5000),
    DicomKind(<<"A.1.2.3">>, label_types, 300),
    DicomKind(<<"A.1.2.3">>, overview_types, 400) }

ThreadDirectories ==
  { [n \in DicomNames |-> [k[n] EXCEPT !.filename = n]] :
      k \in [DicomNames -> ThreadKinds] }

InitDicomThreads == InitDicomDir(ThreadDirectories)

NextDicomThreads ==
  \/ DicomOpen
  \/ \E t \in DicomThreads : TileLock(t)
  \/ \E t \in DicomThreads : TileReadFrame(t)
  \/ \E t \in DicomThreads : TileUnlock(t)
  \/ \E t \in DicomThreads : AssociatedReadFrame(t)
  \/ \E t \in DicomThreads : AssociatedReturn(t)

SpecDicomThreads == InitDicomThreads /\ [][NextDicomThreads]_vars

(***************************************************************************)
(* Layer assembly on fragment lists of up to three JPEGs.  The z, x, y of  *)
(* a fragment are signed; a list may be out of order, and its JPEGs may    *)
(* differ in width.                                                        *)
(***************************************************************************)
LayerWidths == {16, 32}

LayerFragment(w, z, x, y) ==
  Fragment([f |-> [FileFull EXCEPT !.output_width = w], mcu_starts |-> NoHints],
           z, x, y)

LayerFragments ==
  { LayerFragment(w, z, x, y) :
      w \in LayerWidths, z \in (0 - 1)..1, x \in 0..1, y \in (0 - 1)..1 }

LayerSlides ==
  UNION { [1..n -> LayerFragments] : n \in 1..3 }

InitLayers ==
  /\ InitJpeg(LayerSlides)
  /\ dims = None
  /\ dicom_level = None
  /\ dicom_tile = None
  /\ NoDicomSlide

NextLayers ==
  \/ OpenStep
  \/ GetDimensions

SpecLayers == InitLayers /\ [][NextLayers]_vars

(***************************************************************************)
(* read_tile calls on slides whose levels have tiles of several sizes.     *)
(***************************************************************************)
TileDirectories ==
  { [n \in DicomNames |->
       [(CASE n = "a.dcm" -> DicomKind(<<"A.1.2.3">>, original_types, 10000)
           [] n = "b.dcm" -> [DicomKind(<<"A.1.2.3">>, resampled_types, 5000)
                                EXCEPT !.Columns = tb, !.Rows = tb]
           [] OTHER       -> [DicomKind(<<"A.1.2.3">>, tc[1], 2500)
                                EXCEPT !.Columns = tc[2], !.Rows = tc[2]])
          EXCEPT !.filename = n]] :
      tb \in {4, 8}, tc \in {<<resampled_types, 2>>, <<label_types, 4>>} }

InitDicomTile == InitDicomDir(TileDirectories)

NextDicomTile ==
  \/ DicomOpen
  \/ ReadTileCall
  \/ ReadTileStep

SpecDicomTile == InitDicomTile /\ [][NextDicomTile]_vars

(***************************************************************************)
(* compute_mcu_start calls on the index of one JPEG.                       *)
(***************************************************************************)
InitIndex ==
  /\ InitJpeg({<<Fragment([f |-> FileFull, mcu_starts |-> NoHints], 0, 0, 0)>>})
  /\ dims = None
  /\ dicom_level = None
  /\ dicom_tile = None
  /\ dicom_dir = None
  /\ dicom_slide = None
  /\ dicom_paint = None
  /\ dicom_lock = <<>>
  /\ dicom_pc = <<>>
  /\ dicom_call = None
  /\ dicom_cache = {}
  /\ InitIndexCall
  /\ scan_run = None
  /\ tile_stream = None
  /\ tile_pick = None

NextIndex == ComputeMcuStart

SpecIndex == InitIndex /\ [][NextIndex]_vars

(***************************************************************************)
(* find_next_ff_marker calls on one byte stream.                           *)
(***************************************************************************)
InitScan ==
  /\ InitJpeg({<<Fragment([f |-> FileFull, mcu_starts |-> NoHints], 0, 0, 0)>>})
  /\ dims = None
  /\ dicom_level = None
  /\ dicom_tile = None
  /\ dicom_dir = None
  /\ dicom_slide = None
  /\ dicom_paint = None
  /\ dicom_lock = <<>>
  /\ dicom_pc = <<>>
  /\ dicom_call = None
  /\ dicom_cache = {}
  /\ index_call = None
  /\ InitScanRun
  /\ tile_stream = None
  /\ tile_pick = None

NextScan == FindNextFfMarker

SpecScan == InitScan /\ [][NextScan]_vars

(***************************************************************************)
(* Tile reads of one JPEG, between compute_mcu_start calls of a sweep.     *)
(***************************************************************************)
InitStream ==
  /\ InitJpeg({<<Fragment([f |-> FileFull, mcu_starts |-> NoHints], 0, 0, 0)>>})
  /\ dims = None
  /\ dicom_level = None
  /\ dicom_tile = None
  /\ dicom_dir = None
  /\ dicom_slide = None
  /\ dicom_paint = None
  /\ dicom_lock = <<>>
  /\ dicom_pc = <<>>
  /\ dicom_call = None
  /\ dicom_cache = {}
  /\ InitStreamCall
  /\ scan_run = None
  /\ tile_stream = None
  /\ tile_pick = None

NextStream ==
  \/ ReadFromOneJpeg
  \/ ComputeMcuStart

SpecStream == InitStream /\ [][NextStream]_vars

(***************************************************************************)
(* tilereader_read calls on slides of up to three JPEGs in z, x, y order.  *)
(***************************************************************************)
TileFragments ==
  { LayerFragment(w, z, x, y) : w \in LayerWidths, z \in 0..1, x \in 0..1, y \in 0..1 }

\* the lists create_width_to_layer_map goes through without failing its
\* assertion of line 308
in_zxy_order(s) ==
  \A i \in 1..Len(s) :
    IF i = 1 THEN is_zxy_successor(0 - 1, 0 - 1, 0 - 1, s[1].z, s[1].x, s[1].y)
    ELSE is_zxy_successor(s[i - 1].z, s[i - 1].x, s[i - 1].y, s[i].z, s[i].x, s[i].y)

TileSlides ==
  UNION { {s \in [1..n -> TileFragments] : in_zxy_order(s)} : n \in 1..3 }

InitTiles ==
  /\ InitJpeg(TileSlides)
  /\ dims = None
  /\ dicom_level = None
  /\ dicom_tile = None
  /\ NoDicomSlide

NextTiles ==
  \/ OpenStep
  \/ TilereaderRead

SpecTiles == InitTiles /\ [][NextTiles]_vars

(***************************************************************************)
(* A read_tile call followed step by step while other threads read tiles   *)
(* of the same slide.                                                      *)
(***************************************************************************)
OtherThreads == DicomThreads \ {DicomCaller}

NextDicomShared ==
  \/ DicomOpen
  \/ ReadTileCall
  \/ ReadTileStep
  \/ \E t \in OtherThreads : TileLock(t)
  \/ \E t \in OtherThreads : TileReadFrame(t)
  \/ \E t \in OtherThreads : TileUnlock(t)

SpecDicomShared == InitDicomTile /\ [][NextDicomShared]_vars

(***************************************************************************)
(* The claims.                                                             *)
(***************************************************************************)
\* the two file bytes before offset p of oj are 0xFF and a restart marker
PrecededByRestartMarker(oj, p) ==
  /\ p - 2 >= 0
  /\ p <= oj.file_size
  /\ ByteAt(oj.f, p - 2) = 255
  /\ ByteAt(oj.f, p - 1) \in 208..215

InCriticalSection ==
  /\ wpc = "locked" => mutex = Worker
  /\ \A r \in Readers : rpc[r] = "reading" => mutex = Reader(r)
  /\ \A r1, r2 \in Readers :
       (rpc[r1] = "reading" /\ rpc[r2] = "reading") => r1 = r2
  /\ \A r \in Readers : ~(wpc = "locked" /\ rpc[r] = "reading")

\* C2: from the start of the worker to its join, the worker and the readers
\* are inside compute_mcu_start or the tile-read path only while holding
\* restart_marker_mutex, never two of them at once, and an mcu_starts entry
\* changes only in a step of the holder of the mutex.
C2_UnderMutex ==
  /\ []InCriticalSection
  /\ [][(wpc # "unborn" /\ mcu_starts' # mcu_starts) =>
          (mutex # Free /\ mutex # Destroyer)]_vars

\* a reader is reading while the worker, with slots left, waits at the loop
\* head and another reader is idle
C2_Witness ==
  /\ wpc = "head"
  /\ current_jpeg < jpeg_count
  /\ \E r1, r2 \in Readers :
       r1 # r2 /\ rpc[r1] = "reading" /\ rpc[r2] = "idle" /\ mutex = Reader(r1)

\* C3: the worker runs only while the one_jpeg records, files, index
\* arrays, layers, cache and mutex exist: it is created after them, and
\* destroy goes past its join only once the worker has returned.
C3_WorkerInsideLifetime ==
  /\ wpc \in {"head", "locked"} =>
       {"data", "all_jpegs", "files", "mcu_starts", "layers", "layer_jpegs",
        "cache", "mutex"} \subseteq alive
  /\ dpc > StepIndex(DestroyOrder, "join") => wpc = "done"

\* destroy waits in g_thread_join while the worker is inside a slot
C3_Witness ==
  /\ wpc = "locked"
  /\ dpc = StepIndex(DestroyOrder, "join")

\* C4: once should_terminate is set, the worker calls compute_mcu_start no
\* more and no step of it changes an mcu_starts entry; holding the mutex, it
\* leaves the loop.
C4_NoIndexWorkAfterFlag ==
  [][should_terminate =>
       /\ wcalls' = wcalls
       /\ wpc' # wpc => mcu_starts' = mcu_starts
       /\ wpc = "locked" => wpc' \in {"locked", "done"}]_vars

\* the worker has returned on the flag with slots left unvisited
C4_Witness ==
  /\ should_terminate
  /\ wpc = "done"
  /\ current_jpeg < jpeg_count
  /\ wcalls > 0

\* C5: the worker always terminates, and the join with it returns: holding
\* the mutex, the worker can always take its next step, which is to leave
\* on the flag or to finish its slot and release the mutex; it is never
\* stopped inside a slot.
C5_WorkerTerminates ==
  wpc = "locked" => ENABLED (WorkerExit \/ WorkerSlot)

\* the offsets a read of restart segment M of JPEG oj hands to the stream
\* builder, the index being starts
PairUsed(oj, starts, M) ==
  read_from_one_jpeg(oj, starts,
    (M % (oj.width \div oj.tile_width)) * oj.tile_width,
    (M \div (oj.width \div oj.tile_width)) * oj.tile_height).use

\* C6: after the sweep has visited every slot, the (start, stop) pair of
\* every tile M of every JPEG is the pair of a read of M made on the index
\* as it is after open, with no sweep step taken.
C6_SweepChangesNothing ==
  (wpc = "done" /\ current_jpeg = jpeg_count /\ "mcu_starts" \in alive) =>
    \A j \in DOMAIN mcu_starts : \A M \in DOMAIN mcu_starts[j] :
      PairUsed(all_jpegs[j], mcu_starts[j], M) =
        PairUsed(all_jpegs[j], init_optimization(fragments[j + 1]), M)

\* C7: a read_region call with the arguments of an earlier call uses, tile
\* by tile, the same JPEG, header length, start and stop offsets, whatever
\* sweep steps and reads came between the two.
C7_RereadUsesSameOffsets ==
  (pinned # None /\ ~aborted /\ dpc <= StepIndex(DestroyOrder, "join")) =>
    read_region(layers, all_jpegs, mcu_starts, pinned.args.x, pinned.args.y,
                pinned.args.layer, pinned.args.w, pinned.args.h).uses
      = pinned.uses

\* C8: get_dimensions gives (0, 0) and reads no layer record for an index
\* outside [0, layer_count), and the scaled size of the layer inside it.
C8_GetDimensions ==
  dims # None =>
    IF dims.layer >= 0 /\ dims.layer < Len(layers)
    THEN /\ dims.result.w = layers[dims.layer + 1].pixel_w
                              \div layers[dims.layer + 1].scale_denom
         /\ dims.result.h = layers[dims.layer + 1].pixel_h
                              \div layers[dims.layer + 1].scale_denom
    ELSE /\ dims.result.w = 0
         /\ dims.result.h = 0
         /\ ~dims.result.read_layer

\* C9: read_tile with tile_col >= tiles_across is out of range and reads no
\* frame, whatever the row.
C9_ColumnBeyondGridRejected ==
  (dicom_tile # None /\ dicom_tile.tile_col >= dicom_level.tiles_across) =>
    dicom_tile.result.status = "out_of_range"

\* a tile of the grid ceil(W/tw) x ceil(H/th)
InGrid(l, tile_col, tile_row) ==
  /\ 0 <= tile_col /\ tile_col < Ceil(l.image_width, l.tile_w)
  /\ 0 <= tile_row /\ tile_row < Ceil(l.image_height, l.tile_h)

\* C10 as stated: on every level, the frame number of a tile of the grid is
\* 1 + col + tiles_across * row, lies in [1, num_frames] and is read.
C10_InGridNeverRejected ==
  (dicom_tile # None
   /\ InGrid(dicom_level, dicom_tile.tile_col, dicom_tile.tile_row)) =>
    /\ dicom_tile.result.status = "frame_read"
    /\ dicom_tile.result.frame \in 1..dicom_level.num_frames
    /\ dicom_tile.result.frame
         = 1 + dicom_tile.tile_col
             + Ceil(dicom_level.image_width, dicom_level.tile_w) * dicom_tile.tile_row

\* C10 amended: the same on every level whose file holds at least
\* tiles_across * tiles_down frames.
C10_InGridOfFullLevel ==
  (dicom_tile # None
   /\ InGrid(dicom_level, dicom_tile.tile_col, dicom_tile.tile_row)
   /\ dicom_level.num_frames >=
        Ceil(dicom_level.image_width, dicom_level.tile_w)
          * Ceil(dicom_level.image_height, dicom_level.tile_h)) =>
    /\ dicom_tile.result.status = "frame_read"
    /\ dicom_tile.result.frame \in 1..dicom_level.num_frames
    /\ dicom_tile.result.frame
         = 1 + dicom_tile.tile_col
             + Ceil(dicom_level.image_width, dicom_level.tile_w) * dicom_tile.tile_row

\* the last tile of a level of 2 x 2 tiles whose sides are no multiples of
\* the tile size, the file holding exactly its 4 frames
C10_Witness ==
  /\ dicom_tile # None
  /\ dicom_level.image_width = 7
  /\ dicom_level.image_height = 5
  /\ dicom_level.num_frames = 4
  /\ dicom_tile.tile_col = 1
  /\ dicom_tile.tile_row = 1
  /\ dicom_tile.result.frame = 4

\* the file dicom_open is given
StartFile == dicom_dir.files[dicom_dir.filename]

\* a file dicom_open accepts whose SeriesInstanceUID is that of the file
\* dicom_open is given
OfSlideSeries(f) ==
  /\ f.filehandle
  /\ f.MediaStorageSOPClassUID = VLWholeSlideMicroscopyImageStorage
  /\ f.metadata
  /\ f.SeriesInstanceUID # <<>>
  /\ f.SeriesInstanceUID = StartFile.SeriesInstanceUID

\* a file that qualifies as a level: it can be read whole, the first four
\* values of its ImageType are those of a level and its tiles are square
QualifiesAsLevel(f) ==
  /\ f.metadata
  /\ f.bot
  /\ Len(f.ImageType) >= 4
  /\ SubSeq(f.ImageType, 1, 4) \in {original_types, resampled_types}
  /\ f.Columns = f.Rows

\* the files of the levels and of the associated images of the slide
LevelFiles == { dicom_slide.levels[i].file : i \in DOMAIN dicom_slide.levels }
AssociatedFiles ==
  { dicom_slide.associated_images[k].file : k \in DOMAIN dicom_slide.associated_images }

\* C11: after dicom_open has succeeded, every level and every associated
\* image comes from a file of the directory with the SeriesInstanceUID of
\* the file opened, and every accepted file of that series that qualifies
\* as a level is a level of the slide.
C11_OneSeries ==
  (dicom_slide # None /\ dicom_slide.ok) =>
    /\ \A n \in LevelFiles \cup AssociatedFiles :
         n \in DicomNames /\ OfSlideSeries(dicom_dir.files[n])
    /\ \A n \in DicomNames :
         (OfSlideSeries(dicom_dir.files[n]) /\ QualifiesAsLevel(dicom_dir.files[n]))
           => n \in LevelFiles

\* a slide of one level and a label, opened in a directory that holds a
\* level of another series as well
C11_Witness ==
  /\ dicom_slide # None
  /\ dicom_slide.ok
  /\ Len(dicom_slide.levels) = 1
  /\ DOMAIN dicom_slide.associated_images = {"label"}
  /\ \E n \in DicomNames :
       /\ dicom_dir.files[n].SeriesInstanceUID = <<"A.9.9.9">>
       /\ QualifiesAsLevel(dicom_dir.files[n])

\* the integer quotient W0 / Wi of level i (counted from 1 in the sequence)
WidthQuotient(i) ==
  dicom_slide.levels[1].image_width \div dicom_slide.levels[i].image_width

\* C12: after dicom_open has succeeded, the downsample of level i is the
\* integer quotient W0 / Wi of the level widths (1 at level 0), and
\* paint_region hands the level-0 coordinates divided by it to the grid.
C12_DownsampleIsWidthQuotient ==
  (dicom_slide # None /\ dicom_slide.ok) =>
    /\ \A i \in DOMAIN dicom_slide.levels :
         dicom_slide.levels[i].downsample = WidthQuotient(i)
    /\ dicom_paint # None =>
         /\ dicom_paint.result.defined
         /\ dicom_paint.result.x
              = dicom_paint.x \div WidthQuotient(dicom_paint.level + 1)
         /\ dicom_paint.result.y
              = dicom_paint.y \div WidthQuotient(dicom_paint.level + 1)

\* C13: a thread inside dcm_filehandle_read_frame on a DicomFile, whether
\* it came from read_tile or from associated_get_argb_data, holds that
\* file's lock, so no two threads are inside read_frame on one file.
C13_ReadFrameUnderLock ==
  /\ \A t \in DOMAIN dicom_pc :
       dicom_pc[t].at = "read_frame" => dicom_lock[dicom_pc[t].file] = t
  /\ \A t, u \in DOMAIN dicom_pc :
       (t # u /\ dicom_pc[t].at = "read_frame" /\ dicom_pc[u].at = "read_frame")
         => dicom_pc[t].file # dicom_pc[u].file

\* the four values of ImageType the backend reads, <<>> when there are fewer
FourValues(f) ==
  IF Len(f.ImageType) >= 4 THEN SubSeq(f.ImageType, 1, 4) ELSE <<>>

\* C14: a file of the series is a level only if its ImageType is
\* (ORIGINAL,PRIMARY,VOLUME,NONE) or (DERIVED,PRIMARY,VOLUME,RESAMPLED), the
\* image "label" only if it is (ORIGINAL,PRIMARY,LABEL,NONE) and the image
\* "macro" only if it is (ORIGINAL,PRIMARY,OVERVIEW,NONE); no file is both,
\* and a file with any other ImageType, or fewer than 4 values, is neither.
C14_ImageTypeDecidesRole ==
  (dicom_slide # None /\ dicom_slide.ok) =>
    /\ \A n \in LevelFiles :
         FourValues(dicom_dir.files[n]) \in {original_types, resampled_types}
    /\ \A k \in DOMAIN dicom_slide.associated_images :
         /\ k \in {"label", "macro"}
         /\ k = "label" =>
              FourValues(dicom_dir.files[dicom_slide.associated_images[k].file])
                = label_types
         /\ k = "macro" =>
              FourValues(dicom_dir.files[dicom_slide.associated_images[k].file])
                = overview_types
    /\ LevelFiles \cap AssociatedFiles = {}
    /\ \A n \in DicomNames :
         FourValues(dicom_dir.files[n])
             \notin {original_types, resampled_types, label_types, overview_types}
           => n \notin LevelFiles \cup AssociatedFiles

\* a slide with a level and a label whose directory holds a file of the
\* same series with three values of ImageType only, which is neither
C14_Witness ==
  /\ dicom_slide # None
  /\ dicom_slide.ok
  /\ Len(dicom_slide.levels) = 1
  /\ DOMAIN dicom_slide.associated_images = {"label"}
  /\ \E n \in DicomNames :
       /\ Len(dicom_dir.files[n].ImageType) = 3
       /\ dicom_dir.files[n].SeriesInstanceUID = StartFile.SeriesInstanceUID
       /\ n \notin LevelFiles \cup AssociatedFiles

Sign(v) == IF v > 0 THEN 1 ELSE IF v < 0 THEN 0 - 1 ELSE 0

\* C15: the levels are in the order of their widths, widest first, whatever
\* the widths are, and the sign of compare_level_width of two levels is the
\* sign of the difference of their widths.
C15_WidestFirst ==
  (dicom_slide # None /\ dicom_slide.ok) =>
    /\ \A i, j \in DOMAIN dicom_slide.levels :
         i < j => dicom_slide.levels[i].image_width
                    >= dicom_slide.levels[j].image_width
    /\ \A i, j \in DOMAIN dicom_slide.levels :
         Sign(compare_level_width(dicom_slide.levels[i], dicom_slide.levels[j]))
           = Sign(dicom_slide.levels[j].image_width
                    - dicom_slide.levels[i].image_width)

\* _openslide_add_jpeg_ops has built the level sequence
LayersBuilt == ~aborted /\ opc > StepIndex(OpenOrder, "layers")

\* The z-groups of the fragment list, each named by the position of its
\* last fragment: the runs of fragments with one z.
GroupEnds ==
  { e \in 1..Len(fragments) :
      e = Len(fragments) \/ fragments[e + 1].z # fragments[e].z }

GroupStart(e) ==
  CHOOSE i \in 1..e :
    /\ \A k \in i..e : fragments[k].z = fragments[e].z
    /\ i = 1 \/ fragments[i - 1].z # fragments[e].z

\* the width of a group: the widths of its JPEGs of row y = 0, from i on
RECURSIVE GroupWidthFrom(_, _)
GroupWidthFrom(i, e) ==
  IF i > e THEN 0
  ELSE (IF fragments[i].y = 0 THEN fragments[i].f.output_width ELSE 0)
       + GroupWidthFrom(i + 1, e)

\* the height of a group: the heights of its JPEGs of column x = 0
RECURSIVE GroupHeightFrom(_, _)
GroupHeightFrom(i, e) ==
  IF i > e THEN 0
  ELSE (IF fragments[i].x = 0 THEN fragments[i].f.output_height ELSE 0)
       + GroupHeightFrom(i + 1, e)

GroupW(e) == GroupWidthFrom(GroupStart(e), e)
GroupH(e) == GroupHeightFrom(GroupStart(e), e)

ScaleDenoms == {1, 2, 4, 8}

\* level i (from 1) is the level of group e at scale_denom d
IsLevelOf(i, e, d) ==
  /\ layers[i].scale_denom = d
  /\ layers[i].pixel_w = GroupW(e)
  /\ layers[i].pixel_h = GroupH(e)
  /\ \A k \in DOMAIN layers[i].layer_jpegs :
       layers[i].layer_jpegs[k] = GroupStart(e) - 1 + (k - 1)
  /\ \A r \in get_dimensions(layers, i - 1) :
       r.w = GroupW(e) \div d /\ r.h = GroupH(e) \div d

\* C16 as stated: every z-group has its four levels, of scale_denom 1, 2,
\* 4 and 8 and dimensions (pixel_w / scale_denom, pixel_h / scale_denom),
\* in the level sequence, and layer_count is 4 times the number of groups.
C16_FourLevelsPerGroup ==
  LayersBuilt =>
    /\ Len(layers) = 4 * Cardinality(GroupEnds)
    /\ \A e \in GroupEnds, d \in ScaleDenoms :
         \E i \in DOMAIN layers : IsLevelOf(i, e, d)

\* the widths the levels are keyed by
LayerKeys == { GroupW(e) \div d : e \in GroupEnds, d \in ScaleDenoms }

\* C16 amended: every z-group puts four levels, of scale_denom 1, 2, 4 and
\* 8, into a map keyed by pixel_w / scale_denom in which a level replaces
\* an earlier one of the same width; layer_count is the number of distinct
\* widths, which is 4 times the number of groups when no two are equal, and
\* every level is the last one put in for its width.
C16_FourLevelsUnlessSameWidth ==
  LayersBuilt =>
    /\ Len(layers) = Cardinality(LayerKeys)
    /\ Len(layers) <= 4 * Cardinality(GroupEnds)
    /\ \A i \in DOMAIN layers :
         \E e \in GroupEnds, d \in ScaleDenoms :
           /\ IsLevelOf(i, e, d)
           /\ \A e2 \in GroupEnds, d2 \in ScaleDenoms :
                GroupW(e2) \div d2 = GroupW(e) \div d
                  => e2 < e \/ (e2 = e /\ d2 <= d)
    /\ \A e \in GroupEnds, d \in ScaleDenoms :
         (\A e2 \in GroupEnds, d2 \in ScaleDenoms :
            GroupW(e2) \div d2 = GroupW(e) \div d => (e2 = e /\ d2 = d))
           => \E i \in DOMAIN layers : IsLevelOf(i, e, d)

\* a z = 0 group 32 wide and a z = 1 group 16 wide: 5 levels
C16_Witness ==
  /\ LayersBuilt
  /\ Len(fragments) = 2
  /\ fragments[1].z = 0 /\ fragments[1].f.output_width = 32
  /\ fragments[2].z = 1 /\ fragments[2].f.output_width = 16
  /\ Len(layers) = 5

\* C17: after _openslide_add_jpeg_ops the levels are in the order of their
\* widths, strictly descending: get_dimensions(i).w > get_dimensions(i+1).w
\* for every i with i + 1 < layer_count.
C17_WidthsStrictlyDescending ==
  LayersBuilt =>
    \A i \in 0..(Len(layers) - 2) :
      \A a \in get_dimensions(layers, i), b \in get_dimensions(layers, i + 1) :
        a.w > b.w

\* the 8 levels of a z = 0 group 48 wide and a z = 1 group 16 wide, and a
\* get_dimensions call on the second of them
C17_Witness ==
  /\ LayersBuilt
  /\ Len(layers) = 8
  /\ layers[1].pixel_w = 48
  /\ dims # None
  /\ dims.layer = 1
  /\ dims.result.w = 24

\* C18: for every fragment list that is accepted, whatever the number of
\* z-groups and their widths, level 0 has scale_denom 1.
C18_Level0ScaleDenom1 ==
  (LayersBuilt /\ Len(layers) > 0) => layers[1].scale_denom = 1

\* C19: the effective downsample of level i, (layer0_w * scale_denom) /
\* pixel_w with layer0_w the width of the z = 0 group, is at least 1 for
\* every level, does not decrease with the level index and is 1 at level
\* 0, whatever the widths of the groups are.  The quotients are compared
\* by their cross products.
C19_EffectiveDownsample ==
  LayersBuilt =>
    /\ \A i \in DOMAIN layers :
         /\ layers[i].pixel_w > 0
         /\ layers[i].layer0_w * layers[i].scale_denom >= layers[i].pixel_w
    /\ \A i \in 1..(Len(layers) - 1) :
         layers[i].layer0_w * layers[i].scale_denom * layers[i + 1].pixel_w
           <= layers[i + 1].layer0_w * layers[i + 1].scale_denom * layers[i].pixel_w
    /\ Len(layers) > 0 =>
         layers[1].layer0_w * layers[1].scale_denom = layers[1].pixel_w

\* the zxy successor relation as the claim states it
ClaimedSuccessor(pz, px, py, z, x, y) ==
  \/ z = pz + 1 /\ x = 0 /\ y = 0
  \/ z = pz /\ x = 0 /\ y = py + 1
  \/ z = pz /\ x = px + 1 /\ y = py

\* the fragment list starts at (0,0,0) and every fragment is a successor
\* of the one before it
InZxyOrder ==
  /\ fragments[1].z = 0 /\ fragments[1].x = 0 /\ fragments[1].y = 0
  /\ \A i \in 2..Len(fragments) :
       ClaimedSuccessor(fragments[i - 1].z, fragments[i - 1].x, fragments[i - 1].y,
                        fragments[i].z, fragments[i].x, fragments[i].y)

\* C20: layer assembly ends the process by assertion when a fragment is not
\* the zxy successor of the one before it, the first fragment having to be
\* (0,0,0); the relation accepts exactly (z+1,0,0), (z,0,y+1) and (z,x+1,y);
\* no level is exposed for a rejected list.
C20_OutOfOrderListRejected ==
  /\ \A i \in 2..Len(fragments) :
       is_zxy_successor(fragments[i - 1].z, fragments[i - 1].x, fragments[i - 1].y,
                        fragments[i].z, fragments[i].x, fragments[i].y)
         <=> ClaimedSuccessor(fragments[i - 1].z, fragments[i - 1].x, fragments[i - 1].y,
                              fragments[i].z, fragments[i].x, fragments[i].y)
  /\ (opc > StepIndex(OpenOrder, "layers") /\ ~InZxyOrder) => aborted
  /\ aborted => (layers = <<>> /\ ~ops_set)

(***************************************************************************)
(* C21, C22: one read_tile call of the DICOM backend.                      *)
(***************************************************************************)
CallLevel == dicom_slide.levels[dicom_call.level]

CallKey ==
  [level |-> dicom_call.level, tile_col |-> dicom_call.tile_col,
   tile_row |-> dicom_call.tile_row]

OwnTileBytes(l) == l.tile_w * l.tile_h * 4

\* C22: the buffer of a read_tile call has tile_w x tile_h x 4 bytes for
\* the tile size of the level of the call, the decoder never writes more
\* than the buffer holds, and every cache entry has the size of a tile of
\* its own level.
C22_BufferIsOwnTileSize ==
  /\ (dicom_call # None /\ dicom_call.box # 0)
       => /\ dicom_call.box = OwnTileBytes(CallLevel)
          /\ dicom_call.written <= dicom_call.box
  /\ \A e \in dicom_cache :
       e.size = OwnTileBytes(dicom_slide.levels[e.key.level])

(***************************************************************************)
(* C23 .. C26: compute_mcu_start on one index.                             *)
(***************************************************************************)
\* the offsets of oj's file that follow a restart marker of the scan
MarkerEnds(oj, header_stop) ==
  {p \in (header_stop + 2)..oj.file_size : PrecededByRestartMarker(oj, p)}

\* p is the offset after the i-th restart marker of the scan
IsSegmentStart(oj, header_stop, i, p) ==
  /\ p \in MarkerEnds(oj, header_stop)
  /\ Cardinality({q \in MarkerEnds(oj, header_stop) : q <= p}) = i

\* C23: after any sequence of compute_mcu_start calls, with or without
\* hints, every entry starts[i] that is not -1, i >= 1, is the offset
\* immediately after the i-th restart marker of the scan.
C23_EntryIsSegmentStart ==
  index_call # None =>
    \A i \in DOMAIN index_call.mcu_starts :
      (i >= 1 /\ index_call.mcu_starts[i] # -1) =>
        IsSegmentStart(index_call.oj, index_call.mcu_starts[0], i,
                       index_call.mcu_starts[i])

\* the offset after the n-th restart marker that ends after offset p
MarkerEndAfter(oj, header_stop, p, n) ==
  CHOOSE q \in MarkerEnds(oj, header_stop) :
    /\ q > p
    /\ Cardinality({r \in MarkerEnds(oj, header_stop) : r > p /\ r <= q}) = n

\* the largest index below t that was known before the call
KnownBelow(before, t) ==
  CHOOSE k \in 0..(t - 1) :
    /\ before[k] # -1
    /\ \A i \in (k + 1)..(t - 1) : before[i] = -1

\* what C24 says of a call for target t made on the index before, the
\* index being after on return
ScanFillsUpTo(oj, before, t, after) ==
  /\ \A i \in 0..t : after[i] # -1
  /\ \A i \in (KnownBelow(before, t) + 1)..t :
       after[i] = MarkerEndAfter(oj, before[0], before[KnownBelow(before, t)],
                                 i - KnownBelow(before, t))
  /\ \A i \in DOMAIN after : i > t => after[i] = before[i]

\* C24: with no hints, on a file whose scan has at least t restart
\* markers, a call compute_mcu_start(t) for an unknown entry t leaves
\* starts[0..t] set, starts[k+1..t] being the offsets after the successive
\* restart markers that follow starts[k], k the largest index known before,
\* and leaves every entry above t as it was.
C24_ScanFillsUpToTarget ==
  (/\ index_call # None
   /\ index_call.last # None
   /\ index_call.oj.unreliable_mcu_starts = NoHints
   /\ index_call.last.before[index_call.last.target] = -1
   /\ Cardinality(MarkerEnds(index_call.oj, index_call.mcu_starts[0]))
        >= index_call.last.target)
  => /\ ~index_call.aborted
     /\ ScanFillsUpTo(index_call.oj, index_call.last.before,
                      index_call.last.target, index_call.mcu_starts)

\* the last call was made for an unknown entry that has a hint
HintedCall ==
  /\ index_call # None
  /\ index_call.last # None
  /\ index_call.last.before[index_call.last.target] = -1
  /\ index_call.oj.unreliable_mcu_starts # NoHints
  /\ index_call.oj.unreliable_mcu_starts[index_call.last.target] # -1

HintOfCall == index_call.oj.unreliable_mcu_starts[index_call.last.target]

\* C25: a call compute_mcu_start(t) for an unknown entry t whose hint is
\* preceded by FF Dn makes one seek and one two-byte read, enters no
\* forward scan, sets starts[t] to the hint and leaves every other entry,
\* the unknown ones below t too, as it was.
C25_GoodHintOnlySetsTarget ==
  (HintedCall /\ PrecededByRestartMarker(index_call.oj, HintOfCall))
  => /\ index_call.last.io = [fseeko |-> 1, fread |-> 1, scan |-> FALSE]
     /\ ~index_call.aborted
     /\ index_call.mcu_starts =
          [index_call.last.before EXCEPT ![index_call.last.target] = HintOfCall]

\* a hint was accepted for a target with an unknown entry below it
C25_Witness ==
  /\ HintedCall
  /\ PrecededByRestartMarker(index_call.oj, HintOfCall)
  /\ \E i \in 1..(index_call.last.target - 1) : index_call.mcu_starts[i] = -1

\* C26: a call compute_mcu_start(t) for an unknown entry t whose hint is
\* not preceded by a restart marker, or lies where two bytes cannot be
\* read, ends without error after a forward scan, and starts[t] is then
\* the value the same calls compute on the file opened with no hints.
C26_BadHintFallsBack ==
  (HintedCall /\ ~PrecededByRestartMarker(index_call.oj, HintOfCall))
  => /\ ~index_call.aborted
     /\ index_call.last.io.scan
     /\ index_call.mcu_starts[index_call.last.target]
          = index_call.plain[index_call.last.target]

(***************************************************************************)
(* C27: the sweep on a scan with fewer restart markers than slots.         *)
(***************************************************************************)
\* the number of restart markers of the scan of JPEG j
MarkerCount(j) == Cardinality(MarkerEnds(all_jpegs[j], mcu_starts[j][0]))

\* C27: a slot of the sweep on a JPEG whose scan holds fewer restart
\* markers than its index has slots after the first, the scan ending in
\* EOI or at the end of a truncated file, does not end the process: the
\* slots without a marker stay -1 and the worker goes back to the head of
\* its loop for the next slot.
C27_SweepSurvivesShortScan ==
  [][(/\ wcalls' # wcalls
      /\ MarkerCount(current_jpeg) < all_jpegs[current_jpeg].mcu_starts_count - 1)
     => /\ ~aborted'
        /\ wpc' = "head"
        /\ \A i \in DOMAIN mcu_starts[current_jpeg] :
             i > MarkerCount(current_jpeg) => mcu_starts'[current_jpeg][i] = -1]_vars

(***************************************************************************)
(* C28: find_next_ff_marker against a scanner of the whole stream.         *)
(***************************************************************************)
\* the pairs a scanner of the unchunked stream f returns from offset p on:
\* the next 0xFF with the byte after it, and the offset after the two
RECURSIVE ReferencePairs(_, _)
ReferencePairs(f, p) ==
  LET hits == {q \in p..(Len(f) - 2) : ByteAt(f, q) = 255} IN
  IF hits = {} THEN <<>>
  ELSE LET q == CHOOSE x \in hits : \A y \in hits : x <= y
       IN  <<<<ByteAt(f, q + 1), q + 2>>>> \o ReferencePairs(f, q + 2)

\* the offsets the loop of compute_mcu_start records for these pairs
RECURSIVE ReferenceRecorded(_)
ReferenceRecorded(pairs) ==
  IF pairs = <<>> \/ Head(pairs)[1] = 217 THEN <<>>
  ELSE IF Head(pairs)[1] \in 208..215
  THEN <<Head(pairs)[2]>> \o ReferenceRecorded(Tail(pairs))
  ELSE ReferenceRecorded(Tail(pairs))

IsPrefix(s, t) == Len(s) <= Len(t) /\ s = SubSeq(t, 1, Len(s))

\* C28: for every byte stream and every buffer size >= 1, the pairs
\* (marker byte, offset after the marker) returned by successive
\* find_next_ff_marker calls are those of a scanner of the whole stream,
\* all of them once a call has met the end of the stream; an 0xFF 0x00
\* pair is returned with byte 0 and its offset is never recorded as the
\* start of a restart segment.
C28_ChunkedScanIsReferenceScan ==
  scan_run # None =>
    /\ IsPrefix(scan_run.pairs, ReferencePairs(scan_run.f, 0))
    /\ scan_run.done => scan_run.pairs = ReferencePairs(scan_run.f, 0)
    /\ IsPrefix(scan_run.recorded,
                ReferenceRecorded(ReferencePairs(scan_run.f, 0)))
    /\ \A i \in 1..Len(scan_run.pairs) :
         scan_run.pairs[i][1] = 0 =>
           \A j \in 1..Len(scan_run.recorded) :
             scan_run.recorded[j] # scan_run.pairs[i][2]

\* an 0xFF on the last byte of a buffer was paired with the first byte of
\* the refill, a restart marker, after a stuffed FF 00 was passed
C28_Witness ==
  /\ scan_run # None
  /\ scan_run.done
  /\ \E i, j \in 1..Len(scan_run.pairs) :
       /\ scan_run.pairs[i][1] = 0
       /\ scan_run.pairs[j][1] = 208
       /\ (scan_run.pairs[j][2] - 1) % scan_run.buf_size = 0
       /\ scan_run.buf_size > 1

(***************************************************************************)
(* C29, C30: the buffer jpeg_random_access_src builds for a tile.          *)
(***************************************************************************)
\* the index of the JPEG satisfies the restart-marker invariant and its
\* file ends in FF D9
WellFormedForStream ==
  /\ \A i \in DOMAIN index_call.mcu_starts :
       (i >= 1 /\ index_call.mcu_starts[i] # -1) =>
         PrecededByRestartMarker(index_call.oj, index_call.mcu_starts[i])
  /\ index_call.oj.file_size >= 2
  /\ ByteAt(index_call.oj.f, index_call.oj.file_size - 2) = 255
  /\ ByteAt(index_call.oj.f, index_call.oj.file_size - 1) = 217

\* file bytes [0, header_stop) and [start, stop), the last byte being D9
ExpectedStream(f, header_stop, start, stop) ==
  [i \in 1..(header_stop + stop - start) |->
     IF i = header_stop + stop - start THEN 217
     ELSE IF i <= header_stop THEN f[i]
     ELSE f[start + (i - header_stop)]]

\* C29: for every tile M of a JPEG whose index satisfies the
\* restart-marker invariant and whose file ends in FF D9, the buffer built
\* for M has header_stop + stop - starts[M] bytes, which are the file bytes
\* [0, header_stop) and [starts[M], stop) with the last byte replaced by
\* D9, and ends in FF D9; stop is starts[M+1], or the file size for the
\* last segment.
C29_StreamIsHeaderPlusSegment ==
  (tile_stream # None /\ WellFormedForStream)
  => /\ tile_stream.use.start_position = index_call.mcu_starts[tile_stream.mcu_start]
     /\ tile_stream.use.stop_position =
          IF tile_stream.mcu_start + 1 < index_call.oj.mcu_starts_count
          THEN index_call.mcu_starts[tile_stream.mcu_start + 1]
          ELSE index_call.oj.file_size
     /\ ~tile_stream.out.undefined
     /\ tile_stream.out.buffer =
          ExpectedStream(index_call.oj.f, tile_stream.use.header_stop_position,
                         tile_stream.use.start_position, tile_stream.use.stop_position)
     /\ tile_stream.out.buffer[Len(tile_stream.out.buffer) - 1] = 255

\* the buffer was built and one of the two tests of jpeg_random_access_src
\* failed on it
PreconditionViolated ==
  /\ tile_stream # None
  /\ ~tile_stream.out.undefined
  /\ \/ tile_stream.out.buffer[tile_stream.use.header_stop_position + 1] = 255
     \/ tile_stream.out.buffer[Len(tile_stream.out.buffer) - 1] # 255

\* C30: when the byte at header_stop of the buffer is 0xFF, or its
\* penultimate byte is not 0xFF, the process is ended by the assertion and
\* the decoder is not run on the buffer.
C30_BadBufferEndsProcess ==
  PreconditionViolated =>
    /\ tile_stream.out.ended
    /\ ~tile_stream.decoder_ran

(***************************************************************************)
(* C31, C32: the order and the grain of the background sweep.              *)
(***************************************************************************)
\* the pair after (j, i) in the order of JPEGs and, within one, of slots
NextPair(j, i) ==
  IF i + 1 < all_jpegs[j].mcu_starts_count THEN <<j, i + 1>> ELSE <<j + 1, 0>>

\* every file holds a restart marker for each of its slots after the first
AllMarkersPresent ==
  \A j \in DOMAIN mcu_starts :
    MarkerCount(j) >= all_jpegs[j].mcu_starts_count - 1

\* C31: the worker starts at pair (0, 0), each of its compute_mcu_start
\* calls is for the pair it stands at, a slot of that JPEG, and moves it to
\* the next pair in the order of registration and of slots, and no other
\* step moves it; when the worker leaves with no shutdown signalled and
\* every file holds all its restart markers, no entry of any index is -1.
C31_SweepInOrderFillsAll ==
  [][/\ (wcalls = 0 /\ wpc # "unborn") =>
          <<current_jpeg, current_mcu_start>> = <<0, 0>>
     /\ (wcalls' # wcalls /\ ~aborted') =>
          /\ current_mcu_start < all_jpegs[current_jpeg].mcu_starts_count
          /\ <<current_jpeg', current_mcu_start'>>
               = NextPair(current_jpeg, current_mcu_start)
     /\ (wcalls' = wcalls) =>
          <<current_jpeg', current_mcu_start'>> = <<current_jpeg, current_mcu_start>>
     /\ (wpc # "done" /\ wpc' = "done" /\ ~should_terminate /\ AllMarkersPresent) =>
          \A j \in DOMAIN mcu_starts : \A i \in DOMAIN mcu_starts[j] :
            mcu_starts[j][i] # -1]_vars

\* the entries of JPEG j that differ between the indexes a and b
ChangedEntries(a, b, j) == {i \in DOMAIN a[j] : a[j][i] # b[j][i]}

\* C32: the worker holds the mutex exactly while it is inside its loop
\* body; a compute_mcu_start call of the worker is made under the mutex, is
\* the only one of that acquisition and changes at most one entry, of the
\* JPEG it stands at; the step that ends the loop body, after the call or
\* on the flag, releases the mutex, so that at the loop head, between two
\* slots, the mutex is not the worker's and a reader may take it.
C32_OneEntryPerAcquisition ==
  [][/\ (mutex' = Worker) <=> (wpc' = "locked")
     /\ (wpc # "locked" /\ wpc' = "locked") => wcalls' = wcalls
     /\ (wcalls' # wcalls) =>
          /\ mutex = Worker
          /\ wcalls' = wcalls + 1
          /\ Cardinality(ChangedEntries(mcu_starts, mcu_starts', current_jpeg)) <= 1
          /\ \A j \in DOMAIN mcu_starts :
               j # current_jpeg => mcu_starts'[j] = mcu_starts[j]
          /\ ~aborted' => (mutex' = Free /\ wpc' = "head")
     /\ (wpc = "locked" /\ wpc' = "done") => (mutex' = Free /\ wcalls' = wcalls)
     /\ (wpc' = "head" /\ mutex' = Free /\ ops_set' /\ ~aborted'
         /\ dpc' <= StepIndex(DestroyOrder, "join")) =>
          \A r \in Readers : rpc'[r] = "idle" => read_region_may_enter(mutex')]_vars

\* between two slots of the worker, which has filled an entry, a reader
\* holds the mutex
C32_Witness ==
  /\ wpc = "head"
  /\ wcalls >= 2
  /\ current_jpeg < jpeg_count
  /\ mcu_starts[0][1] # -1
  /\ \E r \in Readers : mutex = Reader(r)

(***************************************************************************)
(* C33: the file tilereader_read chooses.                                  *)
(***************************************************************************)
PickLayer == layers[tile_pick.layer]

\* every file of the slide has the size of image (0,0) of the layer read
FilesOfOneSize ==
  \A j \in DOMAIN all_jpegs :
    /\ all_jpegs[j].width = PickLayer.image00_w
    /\ all_jpegs[j].height = PickLayer.image00_h

\* C33: for a layer whose files all have the size of image (0,0) and a
\* level pixel inside the level, tilereader_read chooses file_x =
\* (src_x * scale_denom) div image00_w < jpegs_across and file_y likewise
\* < jpegs_down, its assertion holds, the JPEG it reads is the fragment
\* registered at x = file_x, y = file_y, and the offsets it passes are the
\* remainders, inside [0, image00_w) x [0, image00_h).
C33_TileReaderChoosesFile ==
  (tile_pick # None /\ FilesOfOneSize) =>
    /\ tile_pick.select.file_x
         = (tile_pick.src_x * PickLayer.scale_denom) \div PickLayer.image00_w
    /\ tile_pick.select.file_y
         = (tile_pick.src_y * PickLayer.scale_denom) \div PickLayer.image00_h
    /\ tile_pick.select.file_x < PickLayer.jpegs_across
    /\ tile_pick.select.file_y < PickLayer.jpegs_down
    /\ tile_pick.select.asserted
    /\ tile_pick.jpeg = PickLayer.layer_jpegs[tile_pick.select.file_number + 1]
    /\ fragments[tile_pick.jpeg + 1].x = tile_pick.select.file_x
    /\ fragments[tile_pick.jpeg + 1].y = tile_pick.select.file_y
    /\ tile_pick.select.start_in_src_segment_x
         = (tile_pick.src_x * PickLayer.scale_denom) % PickLayer.image00_w
    /\ tile_pick.select.start_in_src_segment_y
         = (tile_pick.src_y * PickLayer.scale_denom) % PickLayer.image00_h

(***************************************************************************)
(* C34: the index is written once.                                         *)
(***************************************************************************)
\* the entries of JPEG j that are known in the index a
KnownEntries(a, j) == {i \in DOMAIN a[j] : a[j][i] # -1}

\* C34: entry 0 of every index is never -1; an entry that is not -1 is
\* never changed or set back to -1 by a later step; and for every target
\* the walk backwards from target - 1 stops at an entry that is not -1, of
\* index 0 or above.
C34_IndexIsWriteOnce ==
  [][/\ \A j \in DOMAIN mcu_starts' :
          /\ mcu_starts'[j][0] # -1
          /\ \A target \in DOMAIN mcu_starts'[j] \ {0} :
               /\ first_good_before(mcu_starts'[j], target - 1) \in 0..(target - 1)
               /\ mcu_starts'[j][first_good_before(mcu_starts'[j], target - 1)] # -1
     /\ \A j \in DOMAIN mcu_starts :
          \A i \in KnownEntries(mcu_starts, j) :
            mcu_starts'[j][i] = mcu_starts[j][i]]_vars

\* the worker has made calls and the index of a JPEG is full: every entry
\* above entry 0 was written by one call and lived through the later ones
C34_Witness ==
  /\ wcalls >= 3
  /\ "mcu_starts" \in alive
  /\ \E j \in DOMAIN mcu_starts :
       /\ mcu_starts[j][1] # -1
       /\ mcu_starts[j][2] # -1
       /\ mcu_starts[j][3] # -1

(***************************************************************************)
(* C35: the offsets read_from_one_jpeg hands to the synthesizer.           *)
(***************************************************************************)
\* C35: the segment number M of a tile read lies in 0 .. mcu_starts_count
\* - 1, and the start and stop positions handed to jpeg_random_access_src
\* are known (neither is -1, both are 0 or more) with start < stop.
C35_OffsetsKnownAndOrdered ==
  (tile_stream # None) =>
    /\ tile_stream.mcu_start \in 0..(index_call.oj.mcu_starts_count - 1)
    /\ tile_stream.use.start_position >= 0
    /\ tile_stream.use.stop_position >= 0
    /\ tile_stream.use.start_position < tile_stream.use.stop_position

(***************************************************************************)
(* C36: a layer holds the fragments of its z-group, row by row.            *)
(***************************************************************************)
\* the positions in the fragment list of the z-group layer l was built from
GroupOf(l) ==
  {i \in 1..Len(fragments) : fragments[i].z = fragments[l.layer_jpegs[1] + 1].z}

\* C36: for a fragment list in z, x, y order, the copy loop of
\* generate_layers_into_map never runs past the end of the group's list,
\* and every layer has jpegs_across * jpegs_down = the number of the
\* fragments of its z-group and holds each of them once, the fragment at
\* (x, y) in place y * jpegs_across + x.
C36_LayerHoldsWholeGroup ==
  in_zxy_order(fragments) =>
    /\ ~(aborted /\ ~ops_set)
    /\ ops_set =>
         \A k \in 1..Len(layers) :
           /\ layers[k].jpegs_across * layers[k].jpegs_down
                = Cardinality(GroupOf(layers[k]))
           /\ Len(layers[k].layer_jpegs) = Cardinality(GroupOf(layers[k]))
           /\ \A i \in GroupOf(layers[k]) :
                /\ fragments[i].y * layers[k].jpegs_across + fragments[i].x + 1
                     \in DOMAIN layers[k].layer_jpegs
                /\ layers[k].layer_jpegs[fragments[i].y * layers[k].jpegs_across
                                         + fragments[i].x + 1] = i - 1

(***************************************************************************)
(* C37: the forward scan against the restart markers of the stream.        *)
(***************************************************************************)
\* the offsets after the 0xFF 0xDn pairs of the stream f
RestartPairEnds(f) ==
  {p \in 2..Len(f) : f[p - 1] = 255 /\ is_restart_marker(f[p])}

\* the offsets after the pairs 0xFF 0xD9 of the stream f
EoiPairEnds(f) == {p \in 2..Len(f) : f[p - 1] = 255 /\ f[p] = JPEG_EOI}

\* C37: the j-th offset the forward scan records is the offset after the
\* j-th 0xFF 0xDn pair of the stream, a pair that follows a fill byte 0xFF
\* included; a scan that has met the end of a stream without EOI has
\* recorded every pair.
C37_ScanRecordsEveryMarker ==
  scan_run # None =>
    /\ \A j \in 1..Len(scan_run.recorded) :
         /\ scan_run.recorded[j] \in RestartPairEnds(scan_run.f)
         /\ Cardinality({p \in RestartPairEnds(scan_run.f) :
                           p <= scan_run.recorded[j]}) = j
    /\ (scan_run.done /\ EoiPairEnds(scan_run.f) = {}) =>
         Len(scan_run.recorded) = Cardinality(RestartPairEnds(scan_run.f))

(***************************************************************************)
(* C38: dicom_open reports why it failed.                                  *)
(***************************************************************************)
\* C38: whenever dicom_open has returned false, the error output has been
\* set: when the directory cannot be opened, when the file named is not an
\* accepted WSI file, when its metadata or offset table cannot be read,
\* when it has no SeriesInstanceUID, and when no level is found.
C38_FailureSetsError ==
  (dicom_slide # None /\ ~dicom_slide.ok) => dicom_slide.err

(***************************************************************************)
(* C39: the file lock in read_tile.                                        *)
(***************************************************************************)
\* the files whose lock thread t holds
LocksHeldBy(t) == {n \in DOMAIN dicom_lock : dicom_lock[n] = t}

\* the step the followed call is about to make, "" when no call is running
CallStep ==
  IF dicom_call = None THEN ""
  ELSE IF dicom_call.ret # "none" THEN ""
  ELSE ReadTileOrder[dicom_call.pc]

\* C39: a read_tile call holds the lock of its level's file from the
\* return of g_mutex_lock to g_mutex_unlock, with only the read_frame call
\* between them, and not during the cache lookup, the range test, the test
\* of the frame, the decode, the clip or the cache put, nor after it has
\* returned, true or false; no thread holds the locks of two files; and a
\* thread that holds a lock can always take its next step, so no thread
\* waits for ever.
C39_LockOnlyAroundReadFrame ==
  /\ LocksHeldBy(DicomCaller) =
       IF CallStep \in {"read_frame", "unlock"} THEN {CallLevel.file} ELSE {}
  /\ \A t \in DicomThreads : Cardinality(LocksHeldBy(t)) <= 1
  /\ \A t \in OtherThreads :
       LocksHeldBy(t) # {} => ENABLED (TileReadFrame(t) \/ TileUnlock(t))
  /\ CallStep \in {"read_frame", "unlock"} => ENABLED ReadTileStep
  /\ CallStep = "lock" =>
       \/ ENABLED ReadTileStep
       \/ \E t \in OtherThreads :
            /\ dicom_lock[CallLevel.file] = t
            /\ ENABLED (TileReadFrame(t) \/ TileUnlock(t))

\* the call is about to release the lock of its file, its frame unreadable,
\* while another thread holds the lock of another file and a tile of an
\* earlier call is in the cache
C39_Witness ==
  /\ CallStep = "unlock"
  /\ ~dicom_call.frame
  /\ dicom_lock[CallLevel.file] = DicomCaller
  /\ \E t \in OtherThreads : LocksHeldBy(t) # {}
  /\ dicom_cache # {}

====
